---- MODULE Spec2Model ----
(***************************************************************************)
(* Heads-up no-limit poker benchmark (pokerBench): the hand engine         *)
(* (server/engine), the mirrored-pair duel orchestrator (server/main.go:   *)
(* runDuel, playHandMatch) and the seeded deck.                            *)
(***************************************************************************)
EXTENDS Integers, Sequences, FiniteSets, TLC

(***************************************************************************)
(* Configuration of a run (environment variables SB, BB, START_STACK,      *)
(* DUEL_SEEDS read by runDuel).  The model runs small stakes.              *)
(***************************************************************************)
CfgSB == 1
CfgBB == 2
StartStack == 5
Seeds == 1

\* playHandMatch: const maxActionsPerStreet
maxActionsPerStreet == 20

\* Largest raise-to amount a decision response may name (one above any stack).
MaxAmount == StartStack + 1

\* START_STACK of the deep-stacked hand: room for maxActionsPerStreet
\* minimum raises on one street.
DeepStack == (CfgBB * (maxActionsPerStreet + 2)) + 1

\* Number of calls the engine-level specification makes on one hand.
MaxCalls == 4

\* Largest number of clock ticks between two wall-clock readings of NewDeck(0).
MaxTick == 1

NoAmount == -1

(***************************************************************************)
(* 64-bit unsigned arithmetic on little-endian byte sequences (uint64 of   *)
(* seedStream).                                                            *)
(***************************************************************************)
RECURSIVE XorBits(_, _, _)
XorBits(a, b, n) ==
  IF n = 0 THEN 0
  ELSE (((a % 2) + (b % 2)) % 2) + 2 * XorBits(a \div 2, b \div 2, n - 1)

RECURSIVE Pow2(_)
Pow2(n) == IF n = 0 THEN 1 ELSE 2 * Pow2(n - 1)

ByteAt(x, i) == IF i >= 1 /\ i <= 8 THEN x[i] ELSE 0

Xor64(x, y) == [i \in 1..8 |-> XorBits(x[i], y[i], 8)]

\* x >> n
Shr64(x, n) ==
  LET q == n \div 8
      r == n % 8
  IN [i \in 1..8 |->
        (ByteAt(x, i + q) \div Pow2(r)) + ((ByteAt(x, i + q + 1) * Pow2(8 - r)) % 256)]

RECURSIVE AddCarry(_, _, _, _)
AddCarry(x, y, i, carry) ==
  IF i > 8 THEN << >>
  ELSE LET s == x[i] + y[i] + carry
       IN <<s % 256>> \o AddCarry(x, y, i + 1, s \div 256)

\* x + y modulo 2^64
Add64(x, y) == AddCarry(x, y, 1, 0)

RECURSIVE ColumnSum(_, _, _, _)
ColumnSum(x, y, k, i) ==
  IF i > k THEN 0 ELSE x[i] * y[k + 1 - i] + ColumnSum(x, y, k, i + 1)

RECURSIVE MulCarry(_, _, _, _)
MulCarry(x, y, k, carry) ==
  IF k > 8 THEN << >>
  ELSE LET s == ColumnSum(x, y, k, 1) + carry
       IN <<s % 256>> \o MulCarry(x, y, k + 1, s \div 256)

\* x * y modulo 2^64
Mul64(x, y) == MulCarry(x, y, 1, 0)

Zero64 == <<0, 0, 0, 0, 0, 0, 0, 0>>

\* seedStream.next: 0x9E3779B97F4A7C15, 0xBF58476D1CE4E5B9, 0x94D049BB133111EB
Golden == <<21, 124, 74, 127, 185, 121, 55, 158>>
Mix1 == <<185, 229, 228, 28, 109, 71, 88, 191>>
Mix2 == <<235, 17, 49, 19, 187, 73, 208, 148>>

\* seedStream.next: the advanced state
seedStreamState(state) == Add64(state, Golden)

\* seedStream.next: the value returned
seedStreamNext(state) ==
  LET s  == seedStreamState(state)
      z1 == Mul64(Xor64(s, Shr64(s, 30)), Mix1)
      z2 == Mul64(Xor64(z1, Shr64(z1, 27)), Mix2)
  IN Xor64(z2, Shr64(z2, 31))

(***************************************************************************)
(* Cards and the seeded deck (engine/cards.go).                            *)
(***************************************************************************)
Suits == <<"c", "d", "h", "s">>

MinRank == 2
MaxRank == 14

Card(rnk, suit) == [Rank |-> rnk, Suit |-> suit]

\* NewDeck: the ordered deck before the shuffle, suit-major.
OrderedDeck ==
  [k \in 1..52 |-> Card(MinRank + ((k - 1) % 13), Suits[((k - 1) \div 13) + 1])]

\* math/rand: the modulus 2^31 - 1 and the seeding multiplier 48271 of
\* rngSource.Seed / seedrand, computed by Schrage's method (44488, 3399).
RandMod == (2 * (Pow2(30) - 1)) + 1

AddMod(a, b) == IF a >= RandMod - b THEN a - (RandMod - b) ELSE a + b

\* The value of the 64-bit x modulo 2^31 - 1, bit by bit from the top.
RECURSIVE Mod64(_, _, _)
Mod64(x, i, acc) ==
  IF i = 0 THEN acc
  ELSE LET byte == x[((i - 1) \div 8) + 1]
           bit  == (byte \div Pow2((i - 1) % 8)) % 2
       IN CHOOSE r \in {Mod64(x, i - 1, n) : n \in {AddMod(AddMod(acc, acc), bit)}} : TRUE

\* rand.NewSource(seed): the int64 seed reduced modulo 2^31 - 1 (a negative
\* seed is moved into range, 0 is replaced by 89482311).
randSeed(seed) ==
  LET u == Mod64(seed, 64, 0)
      v == IF seed[8] >= 128 THEN AddMod(u, RandMod - 4) ELSE u
  IN IF v = 0 THEN 89482311 ELSE v

\* seedrand: x[n+1] = 48271 * x[n] mod (2^31 - 1)
seedrand(x) ==
  LET hi == x \div 44488
      lo == x % 44488
      y  == (48271 * lo) - (3399 * hi)
  IN IF y < 0 THEN y + RandMod ELSE y

\* r.Intn(n) on the generator state x
Intn(x, n) == x % n

Swap(deck, i, j) == [deck EXCEPT ![i] = deck[j], ![j] = deck[i]]

\* NewDeck: the Fisher-Yates loop, i counting down from len-1 to 1
\* (positions are 1-based here, so i+1 and j+1).
RECURSIVE Shuffle(_, _, _)
Shuffle(deck, i, x) ==
  IF i <= 0 THEN deck
  ELSE CHOOSE r \in
         {Shuffle(st[1], i - 1, st[2]) :
            st \in {<<Swap(deck, i + 1, Intn(x1, i + 1) + 1), x1>> : x1 \in {seedrand(x)}}} :
         TRUE

\* time.Now().UnixNano() as NewDeck(0) may read it: a nonzero clock value.
ClockBase == <<0, 0, 100, 167, 179, 182, 224, 13>>
ClockValue(k) == Add64(ClockBase, <<k, 0, 0, 0, 0, 0, 0, 0>>)

\* NewDeck(seed), the clock reading being used only when seed = 0
NewDeck(seed, clock) ==
  LET s == IF seed = Zero64 THEN clock ELSE seed
  IN Shuffle(OrderedDeck, 51, randSeed(s))

(***************************************************************************)
(* Hand ranking (engine hand-rank file).  poker.Eval5 / poker.Eval7 are    *)
(* the evaluator library's scores: a smaller score is a stronger hand.     *)
(***************************************************************************)
RankSet(cs) == {c.Rank : c \in cs}
RankCount(cs, r) == Cardinality({c \in cs : c.Rank = r})

\* Position of rank r among the distinct ranks ordered by (count, rank), strongest first.
RankPos(cs, r) ==
  Cardinality({q \in RankSet(cs) :
     \/ RankCount(cs, q) > RankCount(cs, r)
     \/ (RankCount(cs, q) = RankCount(cs, r) /\ q > r)})

RECURSIVE Pow15(_)
Pow15(n) == IF n = 0 THEN 1 ELSE 15 * Pow15(n - 1)

RECURSIVE SumRanks(_, _)
SumRanks(cs, rs) ==
  IF rs = {} THEN 0
  ELSE LET r == CHOOSE q \in rs : TRUE
       IN (r * Pow15(4 - RankPos(cs, r))) + SumRanks(cs, rs \ {r})

MaxOf(S) == CHOOSE m \in S : \A v \in S : m >= v
MinOf(S) == CHOOSE m \in S : \A v \in S : m <= v

\* Strength of exactly five cards: category, then kickers.
Strength5(cs) ==
  LET rs       == RankSet(cs)
      maxCount == MaxOf({RankCount(cs, r) : r \in rs})
      isFlush  == Cardinality({c.Suit : c \in cs}) = 1
      isWheel  == rs = {14, 2, 3, 4, 5}
      isStraight == Cardinality(rs) = 5 /\ (MaxOf(rs) - MinOf(rs) = 4 \/ isWheel)
      cat == IF isStraight /\ isFlush THEN 8
             ELSE IF maxCount = 4 THEN 7
             ELSE IF maxCount = 3 /\ Cardinality(rs) = 2 THEN 6
             ELSE IF isFlush THEN 5
             ELSE IF isStraight THEN 4
             ELSE IF maxCount = 3 THEN 3
             ELSE IF maxCount = 2 /\ Cardinality(rs) = 3 THEN 2
             ELSE IF maxCount = 2 THEN 1
             ELSE 0
      tb == IF isStraight THEN (IF isWheel THEN 5 ELSE MaxOf(rs)) * Pow15(4)
            ELSE SumRanks(cs, rs)
  IN (cat * Pow15(5)) + tb

TopScore == 9 * Pow15(5)

\* poker.Eval5
Eval5(cs) == TopScore - Strength5(cs)

\* poker.Eval7: the best (smallest) five-card score within the cards
Eval7(cs) == MinOf({Eval5(f) : f \in {g \in SUBSET cs : Cardinality(g) = 5}})

\* best5of7 on hole + board cards (7 cards at showdown): handRank.score
best5of7(cards) == Eval7({cards[i] : i \in 1..Len(cards)})

\* better(a, b)
better(a, b) == a > b

(***************************************************************************)
(* The hand engine (engine hand file): Player, Hand, NewHand, bet, Legal,  *)
(* Apply, bettingRoundDone, NextStreet, Done, Showdown.                    *)
(***************************************************************************)
Seat == {"SB", "BB"}
NoSeat == ""

Fold == "fold"
Check == "check"
Call == "call"
Raise == "raise"
ActionKind == {Fold, Check, Call, Raise}

Action(seat, kind, amount) == [Seat |-> seat, Kind |-> kind, Amount |-> amount]

NewPlayer(stack) ==
  [Stack |-> stack, Committed |-> 0, Hole |-> << >>, Folded |-> FALSE, AllIn |-> FALSE]

\* A faulty bet: the pot grows by the amount asked for, not by the chips moved
bet_unclipped(h, s, amt0) ==
  LET p     == h[s]
      allIn == amt0 >= p.Stack
      amt   == IF allIn THEN p.Stack ELSE amt0
      p2    == [p EXCEPT !.Stack = @ - amt,
                         !.Committed = @ + amt,
                         !.AllIn = IF allIn THEN TRUE ELSE @]
  IN [h EXCEPT ![s] = p2,
               !.CurBet = IF p2.Committed > @ THEN p2.Committed ELSE @,
               !.Pot = @ + amt0]

\* Hand.bet(p, amt)
bet(h, s, amt0) ==
  LET p     == h[s]
      allIn == amt0 >= p.Stack
      amt   == IF allIn THEN p.Stack ELSE amt0
      p2    == [p EXCEPT !.Stack = @ - amt,
                         !.Committed = @ + amt,
                         !.AllIn = IF allIn THEN TRUE ELSE @]
  IN [h EXCEPT ![s] = p2,
               !.CurBet = IF p2.Committed > @ THEN p2.Committed ELSE @,
               !.Pot = @ + amt]

\* Hand.postBlinds
postBlinds(h) == bet(bet(h, "SB", CfgSB), "BB", CfgBB)

\* Hand.dealHole (four pops from the front of the deck)
dealHole(h) ==
  [h EXCEPT !.SB.Hole = <<h.Deck[1], h.Deck[2]>>,
            !.BB.Hole = <<h.Deck[3], h.Deck[4]>>,
            !.Deck = SubSeq(h.Deck, 5, Len(h.Deck))]

\* NewHand(id, cfg, deck)
NewHandCfg(deck, startStack) ==
  LET h0 == [Deck |-> deck, Board |-> << >>, Pot |-> 0, Street |-> "preflop",
             SB |-> NewPlayer(startStack), BB |-> NewPlayer(startStack),
             ToAct |-> "SB", CurBet |-> 0, MinRaise |-> 0, History |-> << >>]
  IN [dealHole(postBlinds(h0)) EXCEPT !.ToAct = "SB", !.MinRaise = CfgBB]

\* NewHand under the configuration of the model, START_STACK = StartStack
NewHand(deck) == NewHandCfg(deck, StartStack)

\* Hand.other
other(s) == IF s = "SB" THEN "BB" ELSE "SB"

\* Hand.actor
actor(h) == IF h.ToAct = "SB" THEN "SB" ELSE "BB"

\* Hand.Legal
Legal(h) ==
  LET a      == h[actor(h)]
      o      == h[other(actor(h))]
      toCall == h.CurBet - a.Committed
  IN IF a.Folded \/ a.AllIn THEN << >>
     ELSE (IF toCall = 0 THEN <<Check>> ELSE <<Fold, Call>>)
          \o (IF ~a.AllIn /\ ~o.AllIn THEN <<Raise>> ELSE << >>)

\* A faulty minimum: a raise to exactly CurBet + MinRaise is refused too
RaiseTooSmall_strict(h, amount) == amount <= h.CurBet + h.MinRaise

\* Hand.Apply, raise: the amount is below the minimum raise-to
RaiseTooSmall(h, amount) == amount < h.CurBet + h.MinRaise

\* Hand.Apply(kind, amount): the returned error flag and the hand afterwards
Apply(h, kind, amount) ==
  LET s    == actor(h)
      a    == h[s]
      pass(g) == [g EXCEPT !.ToAct = other(s)]
  IN CASE kind = Fold ->
            [err |-> FALSE,
             h |-> [h EXCEPT ![s].Folded = TRUE,
                             !.History = Append(@, Action(s, Fold, 0))]]
       [] kind = Check ->
            IF h.CurBet - a.Committed # 0
            THEN [err |-> TRUE, h |-> h]
            ELSE [err |-> FALSE,
                  h |-> pass([h EXCEPT !.History = Append(@, Action(s, Check, 0))])]
       [] kind = Call ->
            LET to0 == h.CurBet - a.Committed
                to  == IF to0 < 0 THEN 0 ELSE to0
                g   == bet(h, s, to)
            IN [err |-> FALSE,
                h |-> pass([g EXCEPT !.History = Append(@, Action(s, Call, to))])]
       [] kind = Raise ->
            IF RaiseTooSmall(h, amount)
            THEN [err |-> TRUE, h |-> h]
            ELSE LET prevCur == h.CurBet
                     g == bet(h, s, amount - a.Committed)
                 IN [err |-> FALSE,
                     h |-> pass([g EXCEPT !.MinRaise = amount - prevCur,
                                          !.History = Append(@, Action(s, Raise, amount))])]
       [] OTHER -> [err |-> FALSE, h |-> pass(h)]

\* Hand.bettingRoundDone
bettingRoundDone(h) ==
  \/ h.SB.Folded \/ h.BB.Folded \/ h.SB.AllIn \/ h.BB.AllIn
  \/ /\ h.CurBet - h.SB.Committed = 0
     /\ h.CurBet - h.BB.Committed = 0
     /\ Len(h.History) >= 2
     /\ h.History[Len(h.History)].Kind # Raise
     /\ h.History[Len(h.History) - 1].Kind # Raise

\* A faulty NextStreet: the chips committed on the street that ends are kept
NextStreet_keepCommitted(h) ==
  LET d == CASE h.Street = "preflop" ->
                  [h EXCEPT !.Board = @ \o SubSeq(h.Deck, 1, 3),
                            !.Deck = SubSeq(@, 4, Len(@)),
                            !.Street = "flop"]
             [] h.Street = "flop" ->
                  [h EXCEPT !.Board = Append(@, h.Deck[1]),
                            !.Deck = Tail(@),
                            !.Street = "turn"]
             [] h.Street = "turn" ->
                  [h EXCEPT !.Board = Append(@, h.Deck[1]),
                            !.Deck = Tail(@),
                            !.Street = "river"]
             [] OTHER -> h
  IN [d EXCEPT !.CurBet = 0, !.MinRaise = CfgBB, !.ToAct = "BB"]

\* Hand.NextStreet
NextStreet(h) ==
  LET d == CASE h.Street = "preflop" ->
                  [h EXCEPT !.Board = @ \o SubSeq(h.Deck, 1, 3),
                            !.Deck = SubSeq(@, 4, Len(@)),
                            !.Street = "flop"]
             [] h.Street = "flop" ->
                  [h EXCEPT !.Board = Append(@, h.Deck[1]),
                            !.Deck = Tail(@),
                            !.Street = "turn"]
             [] h.Street = "turn" ->
                  [h EXCEPT !.Board = Append(@, h.Deck[1]),
                            !.Deck = Tail(@),
                            !.Street = "river"]
             [] OTHER -> h
  IN [d EXCEPT !.CurBet = 0, !.SB.Committed = 0, !.BB.Committed = 0,
               !.MinRaise = CfgBB, !.ToAct = "BB"]

\* Hand.Done
Done(h) ==
  \/ (h.Street = "river" /\ bettingRoundDone(h))
  \/ h.SB.Folded \/ h.BB.Folded \/ h.SB.AllIn \/ h.BB.AllIn

\* DECK_SEED (or the crypto seed) of deckSeedFromEnvOrCrypto: 2, 11 and
\* 7046029254386353131 (0x61C8864680B583EB).
BaseSeeds ==
  { <<2, 0, 0, 0, 0, 0, 0, 0>>,
    <<11, 0, 0, 0, 0, 0, 0, 0>>,
    <<235, 131, 181, 128, 70, 134, 200, 97>> }

\* The library's scores of the two seven-card hands (hole + full board) a deck
\* holds.  A hand of the deck in play is ranked once, when the deck is built,
\* and looked up in rankMemo at showdown; any other hand is ranked on the spot.
RunOut(deck) == NextStreet(NextStreet(NextStreet(NewHand(deck))))

RankMemoOf(deck) ==
  LET g  == RunOut(deck)
      sb == g.SB.Hole \o g.Board
      bb == g.BB.Hole \o g.Board
  IN {<<sb, n>> : n \in {best5of7(sb)}} \cup {<<bb, n>> : n \in {best5of7(bb)}}

VARIABLE rankMemo

\* best5of7(append(hole, board)).score
handRank(cards) ==
  IF \E e \in rankMemo : e[1] = cards
  THEN (CHOOSE e \in rankMemo : e[1] = cards)[2]
  ELSE best5of7(cards)

\* Hand.Scores: raw library scores of SB and BB
Scores(h) == <<handRank(h.SB.Hole \o h.Board), handRank(h.BB.Hole \o h.Board)>>

\* Hand.Showdown
Showdown(h) ==
  IF h.SB.Folded THEN "BB"
  ELSE IF h.BB.Folded THEN "SB"
  ELSE LET sc == Scores(h)
       IN IF better(sc[1], sc[2]) THEN "SB"
          ELSE IF better(sc[2], sc[1]) THEN "BB"
          ELSE NoSeat

(***************************************************************************)
(* Decision request (main.go: askAction, applyZeroProbePolicy) and the     *)
(* fallback ladder of playHandMatch.                                       *)
(***************************************************************************)
Contains(ss, x) == \E i \in 1..Len(ss) : ss[i] = x

\* actionStrings(h): the legal set as strings
actionStrings(h) == Legal(h)

Decision(act, amt) == [act |-> act, amt |-> amt]
Failed == [act |-> "error", amt |-> NoAmount]

\* probeProbFromEnv: RAISE_ZERO_CALL_PROB unset gives 0.35; "zero" and "one"
\* are the clamped ends, "mid" any value strictly between.
ProbeProb == "mid"

\* applyZeroProbePolicy(act, amt, legal, minRaiseTo, toCall); coin is the
\* outcome of mrand.Float64() < prob for a prob strictly between 0 and 1.
applyZeroProbePolicy(act, amt, legal, minRaiseTo, toCall, prob, coin) ==
  LET below == IF prob = "zero" THEN FALSE ELSE IF prob = "one" THEN TRUE ELSE coin
  IN IF toCall # 0 THEN Decision(act, amt)
     ELSE IF Contains(legal, Check) /\ act = Raise
       THEN (IF ~below THEN Decision(Check, NoAmount)
             ELSE Decision(Raise, IF amt = NoAmount THEN minRaiseTo ELSE amt))
     ELSE IF Contains(legal, Raise) /\ act = Check /\ below
       THEN Decision(Raise, IF amt = NoAmount THEN minRaiseTo ELSE amt)
     ELSE Decision(act, amt)

\* A raw answer of the decision collaborator: which request path produced it
\* (tool call / JSON schema validate strictly, the legacy text path parses
\* tolerantly), whether the request itself succeeded, and the action and
\* amount it names.
Paths == {"strict", "legacy"}
Answers ==
  [path : Paths, ok : {FALSE}, act : {"none"}, amt : {NoAmount}]
  \cup [path : Paths, ok : {TRUE}, act : {Fold, Check, Call, "none"}, amt : {NoAmount}]
  \cup [path : Paths, ok : {TRUE}, act : {Raise}, amt : {NoAmount} \cup (0..MaxAmount)]

\* askAction: the (action, amount) returned, or Failed for a returned error
askAction(legal, minRaiseTo, maxRaiseTo, obsToCall, ans, prob, coin) ==
  LET outOfRange(x) == x < minRaiseTo \/ x > maxRaiseTo
      probe(d) == applyZeroProbePolicy(d.act, d.amt, legal, minRaiseTo, obsToCall, prob, coin)
      \* 3e: last-ditch safe default of the legacy path
      lastDitch == IF obsToCall = 0 /\ Contains(legal, Check) THEN Decision(Check, NoAmount)
                   ELSE IF Contains(legal, Fold) THEN Decision(Fold, NoAmount)
                   ELSE Failed
  IN IF ~ans.ok THEN Failed
     ELSE IF ans.path = "strict"
       THEN (IF ~Contains(legal, ans.act) THEN Failed
             ELSE IF ans.act = Raise
               THEN (IF ans.amt = NoAmount \/ outOfRange(ans.amt) THEN Failed
                     ELSE probe(Decision(Raise, ans.amt)))
             ELSE probe(Decision(ans.act, NoAmount)))
     ELSE \* legacy: coerceActionMap / parseYAMLish / parseNLAction, then 3e
       (IF ~Contains(legal, ans.act) THEN lastDitch
        ELSE IF ans.act = Raise
          THEN LET x == IF ans.amt = NoAmount THEN minRaiseTo ELSE ans.amt
               IN IF outOfRange(x) THEN lastDitch ELSE probe(Decision(Raise, x))
        ELSE IF obsToCall = 0 /\ ans.act = Call THEN probe(Decision(Check, NoAmount))
        ELSE probe(Decision(ans.act, NoAmount)))

\* playHandMatch: the ladder taken when askAction returned an error
fallbackLadder(legal, toCallFB, minTo) ==
  IF toCallFB > 0
  THEN (IF Contains(legal, Call) THEN Decision(Call, NoAmount)
        ELSE IF Contains(legal, Fold) THEN Decision(Fold, NoAmount)
        ELSE IF Contains(legal, Raise) THEN Decision(Raise, minTo)
        ELSE Decision(Check, NoAmount))
  ELSE (IF Contains(legal, Check) THEN Decision(Check, NoAmount)
        ELSE IF Contains(legal, Raise) THEN Decision(Raise, minTo)
        ELSE IF Contains(legal, Call) THEN Decision(Call, NoAmount)
        ELSE IF Contains(legal, Fold) THEN Decision(Fold, NoAmount)
        ELSE Decision(Check, NoAmount))

(***************************************************************************)
(* playHandMatch: one iteration of the per-street action loop.             *)
(***************************************************************************)
Contrib(total, stre) == [total |-> total, stre |-> stre]

AddContrib(c, seat, n) ==
  [c EXCEPT ![seat] = Contrib(@.total + n, @.stre + n)]

Max0(x) == IF x < 0 THEN 0 ELSE x

\* The apply closure: h.Apply plus the debug record of the call (who the
\* engine took as actor, what was asked, and what that actor could commit).
ApplyCall(h, kind, amount) ==
  [by |-> actor(h), kind |-> kind, amount |-> amount,
   cap |-> h[actor(h)].Committed + h[actor(h)].Stack,
   err |-> Apply(h, kind, amount).err]

\* minTo / maxTo of playHandMatch for the orchestrator's acting seat
MinTo(h) == IF h.CurBet + h.MinRaise < CfgBB THEN CfgBB ELSE h.CurBet + h.MinRaise
MaxTo(h, seat) == h[seat].Committed + h[seat].Stack

\* The raise-to amount handed to the engine for a chosen raise (clamped)
ClampRaise(amt, minTo, maxTo) ==
  LET r0 == IF amt = NoAmount THEN minTo ELSE amt
      r1 == IF r0 < minTo THEN minTo ELSE r0
  IN IF r1 > maxTo THEN maxTo ELSE r1

\* The one-shot fallback taken when the chosen action was not applied
Fallback(h, c, seat, prevWasCheck, toCall, minTo) ==
  LET fb      == actionStrings(h)
      myStre  == c[seat].stre
      chk     == Apply(h, Check, 0)
      tryChk  == Contains(fb, Check) /\ ~chk.err
      lastResort(g, pwc, calls) ==
        IF Contains(fb, Raise) /\ ~Apply(g, Raise, minTo).err
        THEN [h |-> Apply(g, Raise, minTo).h,
              c |-> AddContrib(c, seat, Max0(minTo - myStre)),
              prevWasCheck |-> pwc, exit |-> "continue", winner |-> NoSeat,
              calls |-> Append(calls, ApplyCall(g, Raise, minTo))]
        ELSE [h |-> g, c |-> c, prevWasCheck |-> pwc, exit |-> "continue",
              winner |-> NoSeat,
              calls |-> IF Contains(fb, Raise)
                        THEN Append(calls, ApplyCall(g, Raise, minTo)) ELSE calls]
      chkCalls == IF Contains(fb, Check) THEN <<ApplyCall(h, Check, 0)>> ELSE << >>
  IN IF tryChk /\ prevWasCheck
       THEN [h |-> chk.h, c |-> c, prevWasCheck |-> prevWasCheck,
             exit |-> "next_street", winner |-> NoSeat, calls |-> chkCalls]
     ELSE IF tryChk
       THEN lastResort(chk.h, TRUE, chkCalls)
     ELSE IF Contains(fb, Call)
       THEN [h |-> Apply(h, Call, 0).h, c |-> AddContrib(c, seat, toCall),
             prevWasCheck |-> prevWasCheck, exit |-> "next_street", winner |-> NoSeat,
             calls |-> Append(chkCalls, ApplyCall(h, Call, 0))]
     ELSE IF Contains(fb, Fold)
       THEN [h |-> Apply(h, Fold, 0).h, c |-> c, prevWasCheck |-> prevWasCheck,
             exit |-> "payout", winner |-> other(seat),
             calls |-> Append(chkCalls, ApplyCall(h, Fold, 0))]
     ELSE lastResort(h, prevWasCheck, chkCalls)

\* The switch on the chosen action followed, if nothing was applied, by the
\* fallback.  d is the decision after askAction and the error ladder.
ActionStep(h, c, seat, prevWasCheck, d) ==
  LET minTo   == MinTo(h)
      maxTo   == MaxTo(h, seat)
      myStre  == c[seat].stre
      toCall  == Max0(h.CurBet - myStre)
      raiseTo == ClampRaise(d.amt, minTo, maxTo)
      amount  == IF d.act = Raise THEN raiseTo ELSE 0
      known   == d.act \in ActionKind
      r       == Apply(h, d.act, amount)
      first   == IF known THEN <<ApplyCall(h, d.act, amount)>> ELSE << >>
      withFirst(res) == [res EXCEPT !.calls = first \o @]
  IN IF known /\ ~r.err /\ d.act = Fold
       THEN [h |-> r.h, c |-> c, prevWasCheck |-> prevWasCheck,
             exit |-> "payout", winner |-> other(seat), calls |-> first]
     ELSE IF known /\ ~r.err /\ d.act = Check
       THEN [h |-> r.h, c |-> c, prevWasCheck |-> TRUE,
             exit |-> IF prevWasCheck THEN "next_street" ELSE "continue",
             winner |-> NoSeat, calls |-> first]
     ELSE IF known /\ ~r.err /\ d.act = Call
       THEN [h |-> r.h, c |-> AddContrib(c, seat, toCall), prevWasCheck |-> prevWasCheck,
             exit |-> "next_street", winner |-> NoSeat, calls |-> first]
     ELSE IF known /\ ~r.err /\ d.act = Raise
       THEN [h |-> r.h, c |-> AddContrib(c, seat, Max0(raiseTo - myStre)),
             prevWasCheck |-> FALSE, exit |-> "continue", winner |-> NoSeat,
             calls |-> first]
     ELSE withFirst(Fallback(h, c, seat, prevWasCheck, toCall, minTo))

\* The decision of an iteration whose request was cancelled by the stop
\* watcher (stop flag stored during the wait, immediate mode): the ladder's
CancelledDecision(h, seat) ==
  fallbackLadder(actionStrings(h), Max0(h.CurBet - h[seat].Committed), MinTo(h))

\* What an answer is with respect to the legal set and the raise bounds
AnswerClass(ans, legal, minTo, maxTo) ==
  IF ~ans.ok THEN "transport"
  ELSE IF ~Contains(legal, ans.act) THEN "illegal"
  ELSE IF ans.act = Raise /\ ans.amt = NoAmount THEN "noamount"
  ELSE IF ans.act = Raise /\ (ans.amt < minTo \/ ans.amt > maxTo) THEN "range"
  ELSE "usable"

\* One decision request of an iteration: the answer's path and class, whether
\* askAction returned an error, and the decision the iteration goes on with
\* (askAction's, or the ladder's after an error)
AskedOf(h, seat, answers) ==
  LET legal     == actionStrings(h)
      minTo     == MinTo(h)
      maxTo     == MaxTo(h, seat)
      obsToCall == Max0(h.CurBet - h[seat].Committed)
      toCallFB  == Max0(h.CurBet - h[seat].Committed)
      rec(ans, q) ==
        LET d == IF q = Failed THEN fallbackLadder(legal, toCallFB, minTo) ELSE q
        IN [path |-> ans.path, class |-> AnswerClass(ans, legal, minTo, maxTo),
            failed |-> (q = Failed), act |-> d.act, amt |-> d.amt]
  IN {rec(ans, askAction(legal, minTo, maxTo, obsToCall, ans, ProbeProb, coin)) :
        ans \in answers, coin \in BOOLEAN}

\* Any answer the collaborator can give
Asked(h, seat) == AskedOf(h, seat, Answers)

\* A collaborator that answers well-formed only, and never raises by more
\* than the minimum
MinRaiseAnswers(h) ==
  [path : {"strict"}, ok : {TRUE}, act : {Fold, Check, Call}, amt : {NoAmount}]
  \cup [path : {"strict"}, ok : {TRUE}, act : {Raise}, amt : {MinTo(h)}]

\* The request was cancelled: context.Canceled, then the ladder
CancelledAsk(h, seat) ==
  [path |-> "cancelled", class |-> "transport", failed |-> TRUE,
   act |-> CancelledDecision(h, seat).act, amt |-> CancelledDecision(h, seat).amt]

\* The decisions one iteration can end up applying: every answer of the
\* collaborator through askAction, an error being replaced by the ladder.
Decisions(h, seat) == {Decision(q.act, q.amt) : q \in Asked(h, seat)}

(***************************************************************************)
(* float64 arithmetic (elo_v2.go, Glicko-2).  A float is m * 2^e with m    *)
(* odd (or 0), of at most FloatBits significant bits where float64 has 53; *)
(* every operation returns the exact result rounded to nearest, ties to    *)
(* even, as IEEE 754 does.                                                 *)
(***************************************************************************)
FloatBits == 12

Float(m, e) == [m |-> m, e |-> e]

\* A Go call evaluates its arguments once, before the body runs
ByValue1(F(_), x) == CHOOSE r \in {F(a) : a \in {x}} : TRUE
ByValue2(F(_, _), x, y) == CHOOSE r \in {F(a, b) : a \in {x}, b \in {y}} : TRUE
ByValue3(F(_, _, _), x, y, z) ==
  CHOOSE r \in {F(a, b, c) : a \in {x}, b \in {y}, c \in {z}} : TRUE
ByValue4(F(_, _, _, _), w, x, y, z) ==
  CHOOSE r \in {F(a, b, c, d) : a \in {w}, b \in {x}, c \in {y}, d \in {z}} : TRUE

Abs(n) == IF n < 0 THEN -n ELSE n
Sgn(n) == IF n < 0 THEN -1 ELSE 1

RECURSIVE BitLen(_)
BitLen(n) == IF n = 0 THEN 0 ELSE 1 + BitLen(n \div 2)

\* The one representation of m * 2^e: trailing zero bits moved to the exponent
RECURSIVE Normal(_, _)
Normal(m, e) ==
  IF m = 0 THEN Float(0, 0)
  ELSE IF m % 2 = 0 THEN Normal(m \div 2, e + 1)
  ELSE Float(m, e)

\* m * 2^e rounded to FloatBits significant bits, ties to even
RoundFloat(m0, e0) ==
  LET Rounded(m, e) ==
        LET n     == Abs(m)
            shift == BitLen(n) - FloatBits
        IN IF shift <= 0 THEN Normal(m, e)
           ELSE LET q    == n \div Pow2(shift)
                    r    == n % Pow2(shift)
                    half == Pow2(shift - 1)
                    up   == r > half \/ (r = half /\ q % 2 = 1)
                IN Normal(Sgn(m) * (IF up THEN q + 1 ELSE q), e + shift)
  IN ByValue2(Rounded, m0, e0)

\* Position of the leading bit
Top(x) == BitLen(Abs(x.m)) + x.e

FNeg(x0) == LET Neg(x) == Float(-x.m, x.e) IN ByValue1(Neg, x0)

\* x + y; an operand below a quarter of the other's last place changes nothing
FAdd(x0, y0) ==
  LET Sum(x, y) ==
        IF x.m = 0 THEN y
        ELSE IF y.m = 0 THEN x
        ELSE IF Top(x) - Top(y) > FloatBits + 2 THEN x
        ELSE IF Top(y) - Top(x) > FloatBits + 2 THEN y
        ELSE LET e0 == IF x.e < y.e THEN x.e ELSE y.e
             IN RoundFloat(x.m * Pow2(x.e - e0) + y.m * Pow2(y.e - e0), e0)
  IN ByValue2(Sum, x0, y0)

FSub(x, y) == FAdd(x, FNeg(y))

FMul(x0, y0) ==
  LET Product(x, y) == RoundFloat(x.m * y.m, x.e + y.e)
  IN ByValue2(Product, x0, y0)

\* n / d for integers n, d (d > 0), rounded: the quotient is carried to more
\* than FloatBits + 2 bits, with a last bit that records a remainder
RoundRat(n0, d0) ==
  LET Ratio(n, d) ==
        LET k0     == FloatBits + 3 + BitLen(d) - BitLen(Abs(n))
            k      == IF k0 < 0 THEN 0 ELSE k0
            num    == Abs(n) * Pow2(k)
            q      == num \div d
            sticky == IF num % d = 0 THEN 0 ELSE 1
        IN IF n = 0 THEN Float(0, 0)
           ELSE RoundFloat(Sgn(n) * ((2 * q) + sticky), -(k + 1))
  IN ByValue2(Ratio, n0, d0)

\* x / y (y # 0)
FDiv(x0, y0) ==
  LET Scaled(r, x, y) == IF r.m = 0 THEN r ELSE Float(r.m, r.e + x.e - y.e)
      Quotient(x, y) == ByValue3(Scaled, RoundRat(x.m * Sgn(y.m), Abs(y.m)), x, y)
  IN ByValue2(Quotient, x0, y0)

\* Largest r with r * r <= n
RECURSIVE ISqrt(_)
ISqrt(n0) ==
  LET Pick(s, n) == IF (s + 1) * (s + 1) <= n THEN s + 1 ELSE s
      Root(n) == IF n < 2 THEN n ELSE ByValue2(Pick, 2 * ISqrt(n \div 4), n)
  IN ByValue1(Root, n0)

\* math.Sqrt(x) (x >= 0): correctly rounded.  The root of m * 2^k (k making
\* the exponent even) is carried to FloatBits + 2 bits, with a last bit that
\* records an inexact root
FSqrt(x0) ==
  LET Sqrt(x) ==
        LET k0 == (2 * FloatBits) + 2 - BitLen(x.m)
            k  == IF (x.e - k0) % 2 = 0 THEN k0 ELSE k0 + 1
            n  == x.m * Pow2(k)
            Placed(r) ==
              LET sticky == IF r * r = n THEN 0 ELSE 1
                  Shifted(v) == Float(v.m, v.e + ((x.e - k) \div 2))
              IN ByValue1(Shifted, RoundFloat((2 * r) + sticky, -1))
        IN IF x.m = 0 THEN x ELSE ByValue1(Placed, ISqrt(n))
  IN ByValue1(Sqrt, x0)

FLess(x, y) == FSub(x, y).m < 0

\* float64(n) of an int, and the constants the code names
FInt(n) == RoundFloat(n, 0)
FZero == FInt(0)
FHalf == RoundRat(1, 2)
FOne == FInt(1)

\* clamp(x, lo, hi)
clamp(x0, lo0, hi0) ==
  LET Clamped(x, lo, hi) == IF FLess(x, lo) THEN lo ELSE IF FLess(hi, x) THEN hi ELSE x
  IN ByValue3(Clamped, x0, lo0, hi0)

\* int(x + 0.5) or int(x - 0.5): the integer nearest to x
NearestInt(x0) ==
  LET Nearest(x) ==
        IF x.e >= 0 THEN x.m * Pow2(x.e)
        ELSE IF Top(x) < 0 THEN 0
        ELSE (x.m + Pow2((-x.e) - 1)) \div Pow2(-x.e)
  IN ByValue1(Nearest, x0)

\* ln 2 in two parts, 0.6875 + 0.0056472, so that k * Ln2Hi is exact, and
\* log2(e) = 1.4427
Ln2Hi == RoundRat(11, 16)
Ln2Lo == Float(2961, -19)
Log2e == RoundRat(14427, 10000)

\* x * 2^k
Ldexp(x, k) == IF x.m = 0 THEN x ELSE Float(x.m, x.e + k)

\* math.Exp(x): x = k ln 2 + r with |r| <= (ln 2) / 2, exp(r) by its series,
\* the sum scaled by 2^k; within two units of the last place
ExpTerm(r, n, y) == FAdd(FOne, FMul(FDiv(r, FInt(n)), y))
ExpSeries(r) ==
  ByValue3(ExpTerm, r, 1,
    ByValue3(ExpTerm, r, 2,
      ByValue3(ExpTerm, r, 3,
        ByValue3(ExpTerm, r, 4,
          ByValue3(ExpTerm, r, 5, ExpTerm(r, 6, FOne))))))
ExpReduced(x, k) ==
  ByValue2(Ldexp,
           ByValue1(ExpSeries, FSub(FSub(x, FMul(FInt(k), Ln2Hi)), FMul(FInt(k), Ln2Lo))),
           k)
ExpScaled(x) == IF x.m = 0 THEN FOne ELSE ByValue2(ExpReduced, x, NearestInt(FMul(x, Log2e)))
FExp(x) == ByValue1(ExpScaled, x)

\* math.Log(x) (x > 0): x = 2^k * f with f in [sqrt(1/2), sqrt 2), log f by
\* the series in s = (f - 1) / (f + 1); within two units of the last place
LogTerm(t, n, y) == FAdd(RoundRat(1, n), FMul(t, y))
LogSeries(s, t) ==
  FMul(FMul(FInt(2), s),
       ByValue3(LogTerm, t, 1, ByValue3(LogTerm, t, 3, LogTerm(t, 5, RoundRat(1, 7)))))
LogOfS(s) == ByValue2(LogSeries, s, FMul(s, s))
LogSum(f, k) ==
  FAdd(FAdd(FMul(FInt(k), Ln2Hi), ByValue1(LogOfS, FDiv(FSub(f, FOne), FAdd(f, FOne)))),
       FMul(FInt(k), Ln2Lo))
LogParts(x, b) ==
  IF FLess(Float(x.m, -b), RoundRat(7071, 10000))
  THEN <<Float(x.m, 1 - b), (x.e + b) - 1>>
  ELSE <<Float(x.m, -b), x.e + b>>
LogOfParts(p) == LogSum(p[1], p[2])
FLog(x) == ByValue1(LogOfParts, ByValue2(LogParts, x, BitLen(x.m)))

\* math.Abs(x)
FAbs(x) == Float(Abs(x.m), x.e)

\* math.Tanh(x) for |x| below 0.5 * MAXLOG: 1 - 2 / (exp(2 |x|) + 1) with the
\* sign of x from |x| = 0.625 on, and below that x + x * s * R(s), s = x * x,
\* the series -1/3 + 2s/15 - 17s^2/315 standing for the rational R
TanhLarge(s) == FSub(FOne, FDiv(FInt(2), FAdd(s, FOne)))
TanhSmall(x, s) ==
  FAdd(x, FMul(FMul(x, s),
               FAdd(RoundRat(-1, 3),
                    FMul(s, FAdd(RoundRat(2, 15), FMul(s, RoundRat(-17, 315)))))))
WithSign(x, t) == Float(Sgn(x.m) * t.m, t.e)
TanhSigned(x, z) ==
  IF ~FLess(z, RoundRat(5, 8))
  THEN ByValue2(WithSign, x, ByValue1(TanhLarge, FExp(FMul(FInt(2), z))))
  ELSE IF x.m = 0 THEN x
  ELSE ByValue2(TanhSmall, x, FMul(x, x))
FTanh(x) == ByValue2(TanhSigned, x, FAbs(x))

(***************************************************************************)
(* Elo (elo_v2.go).                                                        *)
(***************************************************************************)
\* NewElo(start, k)
NewElo(start, k) ==
  [A |-> start, B |-> start, K |-> k, Games |-> 0, AccA |-> FHalf, AccB |-> FHalf]

\* math.Pow(10, y) for an integral y, |y| <= 2: the power itself when y >= 0
\* and 1 / 10^-y, rounded, when y < 0
Pow10(y0) ==
  LET Power(y) ==
        LET n == y.m * Pow2(y.e)
        IN CASE y.m = 0 -> FOne
             [] n = 1 -> FInt(10)
             [] n = 2 -> FInt(100)
             [] n = -1 -> FDiv(FOne, FInt(10))
             [] n = -2 -> FDiv(FOne, FInt(100))
  IN ByValue1(Power, y0)

\* Elo.expect
expect(e) ==
  LET Both(ea) == <<ea, FSub(FOne, ea)>>
  IN ByValue1(Both, FDiv(FOne, FAdd(FOne, Pow10(FDiv(FSub(e.B, e.A), FInt(400))))))

\* Elo.SetAccuracy
SetAccuracy(e, accA, accB) ==
  [e EXCEPT !.AccA = clamp(accA, FZero, FOne), !.AccB = clamp(accB, FZero, FOne)]

\* potScale(pot, bb)
potScale(pot, bb) ==
  IF bb <= 0 \/ pot <= 0 THEN FOne
  ELSE clamp(FDiv(FInt(pot), FMul(FInt(2), FInt(bb))), FHalf, FInt(3))

\* mirrorWeight(potSum, bb)
mirrorWeight(potSum, bb) ==
  IF potSum <= 0 \/ bb <= 0 THEN FOne
  ELSE clamp(FDiv(FInt(potSum), FMul(FInt(2), FInt(bb))), RoundRat(6, 10), FInt(3))

\* decay(games)
decay(games) == FDiv(FOne, FAdd(FOne, FMul(RoundRat(1, 100), FInt(games))))

\* The argument of math.Tanh in UpdateFromMirror
MirrorMargin(chipsA, potSum, bb) ==
  LET d0    == FInt(potSum)
      d1    == IF d0.m <= 0 /\ bb > 0 THEN FMul(FInt(2), FInt(bb)) ELSE d0
      denom == IF d1.m <= 0 THEN FOne ELSE d1
      s0    == FDiv(denom, FInt(2))
      scale == IF s0.m <= 0 THEN FOne ELSE s0
  IN FDiv(FInt(chipsA), FMul(scale, RoundRat(14, 10)))

\* math.Tanh(x): 0 at 0; otherwise a float of the sign of x, at most 1 in
\* size, which the update takes as given
TanhSizes == {RoundRat(1, 8), RoundRat(1, 3), FHalf, RoundRat(3, 4), RoundRat(9, 10), FOne}
TanhValues(x) ==
  IF x.m = 0 THEN {FZero}
  ELSE IF x.m > 0 THEN TanhSizes
  ELSE {FNeg(t) : t \in TanhSizes}

\* Elo.UpdateFromMirror(chipsA, potSum, bb), th the value math.Tanh returned:
\* the rating object afterwards and the returned (dA, dB)
UpdateFromMirror(e, chipsA, potSum, bb, th) ==
  LET bias   == clamp(FMul(FSub(e.AccA, e.AccB), RoundRat(35, 100)),
                      RoundRat(-2, 10), RoundRat(2, 10))
      norm   == clamp(FAdd(th, bias), RoundRat(-999, 1000), RoundRat(999, 1000))
      avgAcc == FMul(FAdd(e.AccA, e.AccB), FHalf)
      volAdj == clamp(FAdd(RoundRat(85, 100), FMul(RoundRat(3, 10), avgAcc)),
                      RoundRat(75, 100), RoundRat(115, 100))
      Moved(dA, dB) ==
        [e  |-> [e EXCEPT !.A = FAdd(@, dA), !.B = FAdd(@, dB), !.Games = @ + 1],
         dA |-> dA, dB |-> dB]
      Deltas(ex, sA, kEff) ==
        LET sB == FSub(FOne, sA)
        IN ByValue2(Moved, FMul(kEff, FSub(sA, ex[1])), FMul(kEff, FSub(sB, ex[2])))
  IN ByValue3(Deltas, expect(e), FAdd(FHalf, FMul(FHalf, norm)),
              FMul(FMul(FMul(e.K, mirrorWeight(potSum, bb)), volAdj), decay(e.Games)))

\* Elo.UpdateHand(sa, sb, pot, bb, weightByPot)
UpdateHand(e, sa, sb, pot, bb, weightByPot) ==
  LET Moved(dA, dB) ==
        [e  |-> [e EXCEPT !.A = FAdd(@, dA), !.B = FAdd(@, dB)],
         dA |-> dA, dB |-> dB]
      Deltas(ex, k) == ByValue2(Moved, FMul(k, FSub(sa, ex[1])), FMul(k, FSub(sb, ex[2])))
  IN ByValue2(Deltas, expect(e),
              IF weightByPot THEN FMul(e.K, potScale(pot, bb)) ELSE e.K)

(***************************************************************************)
(* Glicko-2: the aging step.                                               *)
(***************************************************************************)
\* g2Scale = 173.7178
g2Scale == RoundRat(1737178, 10000)

\* NewGlicko2 / NewGlicko2With(r, rd, sigma)
NewGlicko2With(r, rd, sigma) == [Rating |-> r, RD |-> rd, Volatility |-> sigma, Games |-> 0]
NewGlicko2 == NewGlicko2With(FInt(1500), FInt(350), RoundRat(6, 100))

\* toMuPhi(r, rd), fromMuPhi(mu, phi)
toMuPhi(r, rd) == <<FDiv(FSub(r, FInt(1500)), g2Scale), FDiv(rd, g2Scale)>>
fromMuPhi(mu, phi) == <<FAdd(FMul(mu, g2Scale), FInt(1500)), FMul(phi, g2Scale)>>

\* Age: phiStar = sqrt(phiA^2 + sigma^2)
phiStarOf(g) ==
  LET Star(phiA) == FSqrt(FAdd(FMul(phiA, phiA), FMul(g.Volatility, g.Volatility)))
  IN ByValue1(Star, toMuPhi(g.Rating, g.RD)[2])

\* Glicko2.Age
Age(g) ==
  LET muA == toMuPhi(g.Rating, g.RD)[1]
      Aged(r) == [g EXCEPT !.Rating = r[1], !.RD = r[2], !.Games = @ + 1]
  IN ByValue1(Aged, fromMuPhi(muA, phiStarOf(g)))

\* Glicko2.UpdateBatch(results, tau) with len(results) == 0
UpdateBatchEmpty(g, tau) == Age(g)

(***************************************************************************)
(* Glicko-2: the rating-period update with results.                        *)
(***************************************************************************)
\* q = math.Ln10 / 400 and pi2 = math.Pi * math.Pi
glickoQ == FDiv(RoundRat(23026, 10000), FInt(400))
pi2 == FMul(RoundRat(31416, 10000), RoundRat(31416, 10000))

\* g(phi), named gPhi here
gPhi(phi) ==
  FDiv(FOne,
       FSqrt(FAdd(FOne, FDiv(FMul(FMul(FMul(FMul(FInt(3), glickoQ), glickoQ), phi), phi),
                             pi2))))

\* gExp(mu, muj, phij)
gExp(mu, muj, phij) ==
  FDiv(FOne, FAdd(FOne, FExp(FMul(FNeg(gPhi(phij)), FSub(mu, muj)))))

\* UpdateBatch: 'gB := g(phiB); Eab := gExp(muA, muB, phiB)' for a result r
\* against an opponent at mp = (muB, phiB)
OppTerm(muA, r, mp) == [S |-> r.S, gB |-> gPhi(mp[2]), Eab |-> gExp(muA, mp[1], mp[2])]

\* UpdateBatch: 'sumG2E += gB*gB*Eab*(1-Eab); sumGSE += gB*(r.S-Eab)'
Added(prev, o) ==
  [G2E |-> FAdd(prev.G2E, FMul(FMul(FMul(o.gB, o.gB), o.Eab), FSub(FOne, o.Eab))),
   GSE |-> FAdd(prev.GSE, FMul(o.gB, FSub(o.S, o.Eab)))]

\* UpdateBatch: sumG2E and sumGSE over results[1..n]
RECURSIVE Sums(_, _, _)
Sums(muA, results, n) ==
  IF n = 0 THEN [G2E |-> FZero, GSE |-> FZero]
  ELSE ByValue2(Added, Sums(muA, results, n - 1),
                ByValue3(OppTerm, muA, results[n],
                         toMuPhi(results[n].Opp.Rating, results[n].Opp.RD)))

\* UpdateBatch: f(x) with ex = math.Exp(x), c holding a2, delta^2, phiA^2, v
\* and tau^2
HalfRatio(num, s) == FDiv(num, FMul(FMul(FInt(2), s), s))
VolatilityAt(c, ex, x) ==
  FSub(ByValue2(HalfRatio, FMul(ex, FSub(FSub(FSub(c.d2, c.p2), c.v), ex)),
                FAdd(FAdd(c.p2, c.v), ex)),
       FDiv(FSub(x, c.a2), c.t2))
VolatilityF(c, x) == ByValue3(VolatilityAt, c, FExp(x), x)

\* The limits of the volatility solve: k < 1e6, it < 60, |B - A| > 1e-6, and
\* the threshold 1e-12 on |delta|
BracketLimit == FInt(1000000)
IterationLimit == 60
Tolerance == FDiv(FOne, FInt(1000000))
DeltaZero == FMul(Tolerance, Tolerance)

\* UpdateBatch: 'for f(a2-k) < 0 && k < 1e6 { k *= 2.0 }', from k
RECURSIVE BracketK(_, _)
BracketK(c, k) ==
  IF VolatilityF(c, FSub(c.a2, k)).m < 0 /\ FLess(k, BracketLimit)
  THEN ByValue2(BracketK, c, FMul(k, FInt(2)))
  ELSE k

\* UpdateBatch: 'if fC*fB < 0 { A = B; fA = fB }; B = C; fB = fC'
Narrowed(s, C, fC) ==
  IF FMul(fC, s.fB).m < 0
  THEN [s EXCEPT !.A = s.B, !.fA = s.fB, !.B = C, !.fB = fC]
  ELSE [s EXCEPT !.B = C, !.fB = fC]

\* 'it++'.  A pass that leaves A, B, fA and fB as they were is the pass made
\* until it = 60
Counted(s, n) ==
  IF n = s THEN [s EXCEPT !.it = IterationLimit, !.left = "exhausted"]
  ELSE [n EXCEPT !.it = @ + 1]

\* UpdateBatch: 'C := A + (A-B)*fA/(fB-fA); fC := f(C)' and the rest of a pass
PassAt(c, s, C) == ByValue2(Counted, s, ByValue3(Narrowed, s, C, VolatilityF(c, C)))

\* UpdateBatch: one pass of 'for it := 0; it < 60 && math.Abs(B-A) > 1e-6;
\* it++' on s = (A, B, fA, fB, it); s.left says how the loop was left
\* ("running" while it is not): |B - A| <= 1e-6; it = 60; f(C) is NaN or Inf,
\* which is the case when fB = fA makes C infinite or NaN
Pass(c, s) ==
  IF s.left # "running" THEN s
  ELSE IF ~FLess(Tolerance, FAbs(FSub(s.B, s.A))) THEN [s EXCEPT !.left = "converged"]
  ELSE IF s.it >= IterationLimit THEN [s EXCEPT !.left = "exhausted"]
  ELSE IF FSub(s.fB, s.fA).m = 0 THEN [s EXCEPT !.left = "nan"]
  ELSE ByValue3(PassAt, c, s, FAdd(s.A, FDiv(FMul(FSub(s.A, s.B), s.fA), FSub(s.fB, s.fA))))

\* The loop: passes until it is left
RECURSIVE Iteration(_, _)
Iteration(c, s) == IF s.left # "running" THEN s ELSE ByValue2(Iteration, c, ByValue2(Pass, c, s))

\* UpdateBatch: 'fA := f(A); fB := f(B)' and the loop, from A = a2 and B
Started(c, B, fA, fB) ==
  ByValue2(Iteration, c,
           [A |-> c.a2, B |-> B, fA |-> fA, fB |-> fB, it |-> 0, left |-> "running"])
From(c, B) == ByValue4(Started, c, B, VolatilityF(c, c.a2), VolatilityF(c, B))

\* UpdateBatch: B = a2 - k after the search for k, which ends at its limit
\* with f(B) still negative when no bracket was found
Searched(c, k) ==
  [ByValue2(From, c, FSub(c.a2, k)) EXCEPT
     !.left = IF ~FLess(k, BracketLimit) /\ VolatilityF(c, FSub(c.a2, k)).m < 0
              THEN "unbracketed" ELSE @]

\* UpdateBatch: the solve for the new volatility: B after the iteration and
\* how the iteration was left
Solve(c) ==
  IF FLess(FAdd(c.p2, c.v), c.d2)
  THEN ByValue2(From, c, FLog(FSub(FSub(c.d2, c.p2), c.v)))
  ELSE ByValue2(Searched, c, BracketK(c, FOne))

\* UpdateBatch: 'phiStar := math.Sqrt(phiA*phiA + newVol*newVol)'
PhiStar(phiA, newVol) == FSqrt(FAdd(FMul(phiA, phiA), FMul(newVol, newVol)))

\* UpdateBatch: 'phiNew := 1.0 / math.Sqrt(1.0/(phiStar*phiStar)+1.0/v)'
PhiNew(phiStar, v) ==
  FDiv(FOne, FSqrt(FAdd(FDiv(FOne, FMul(phiStar, phiStar)), FDiv(FOne, v))))

\* UpdateBatch: 'muNew := muA + phiNew*phiNew*q*sumGSE' and fromMuPhi
Rated(u, phiNew) ==
  fromMuPhi(FAdd(u.mp[1], FMul(FMul(FMul(phiNew, phiNew), glickoQ), u.sums.GSE)), phiNew)

\* UpdateBatch: the fields written back: 'a.Rating, a.RD = fromMuPhi(..);
\* a.Volatility = newVol; a.Games++'
WrittenBack(u, s, newVol, r) ==
  [g |-> [u.a EXCEPT !.Rating = r[1], !.RD = r[2], !.Volatility = newVol, !.Games = @ + 1],
   solve |-> [left |-> s.left, it |-> s.it]]
Finished(u, s, newVol) ==
  ByValue4(WrittenBack, u, s, newVol,
           ByValue2(Rated, u, ByValue2(PhiNew, PhiStar(u.mp[2], newVol), u.v)))

\* UpdateBatch: 'newVol = math.Exp(B / 2.0)' after the solve
WithVol(u, s) == ByValue3(Finished, u, s, FExp(FDiv(s.B, FInt(2))))

\* UpdateBatch: 'if math.Abs(delta) >= 1e-12 { .. }', newVol staying
\* g.Volatility otherwise; u holds the object, mu and phi, tau, the sums, v
\* and delta
WithDelta(u) ==
  IF FLess(FAbs(u.delta), DeltaZero)
  THEN ByValue3(Finished, u, [left |-> "skipped", it |-> 0], u.a.Volatility)
  ELSE ByValue2(WithVol, u,
                ByValue1(Solve, [a2 |-> FLog(FMul(u.a.Volatility, u.a.Volatility)),
                                 d2 |-> FMul(u.delta, u.delta),
                                 p2 |-> FMul(u.mp[2], u.mp[2]),
                                 v |-> u.v, t2 |-> FMul(u.tau, u.tau)]))

\* UpdateBatch: 'delta := v * q * sumGSE'
WithV(u) == ByValue1(WithDelta, u @@ [delta |-> FMul(FMul(u.v, glickoQ), u.sums.GSE)])

\* UpdateBatch: 'v := 1.0 / (q * q * sumG2E)'
WithSums(u) ==
  ByValue1(WithV, u @@ [v |-> FDiv(FOne, FMul(FMul(glickoQ, glickoQ), u.sums.G2E))])

\* UpdateBatch: the sums over the results
WithMuPhi(u) == ByValue1(WithSums, u @@ [sums |-> Sums(u.mp[1], u.results, Len(u.results))])

\* Glicko2.UpdateBatch(results, tau) with at least one result (E (1 - E) > 0
\* for each): the object afterwards and how the volatility solve went
\* ("skipped" when |delta| < 1e-12)
UpdateBatchRun(a, results, tau) ==
  ByValue1(WithMuPhi, [a |-> a, results |-> results, tau |-> tau,
                       mp |-> toMuPhi(a.Rating, a.RD)])

\* Glicko2.UpdateBatch(results, tau): the object afterwards and how the
\* volatility solve went
UpdateBatch(a, results, tau) ==
  IF Len(results) = 0
  THEN [g |-> UpdateBatchEmpty(a, tau), solve |-> [left |-> "none", it |-> 0]]
  ELSE UpdateBatchRun(a, results, tau)

\* Glicko2.UpdatePair(b, S, tau)
UpdatePair(a, b, S, tau) == UpdateBatch(a, <<[Opp |-> b, S |-> S]>>, tau)

(***************************************************************************)
(* State: the duel (runDuel), the hand being played (playHandMatch) and    *)
(* the engine hand.                                                        *)
(***************************************************************************)
VARIABLES
  pc,            \* control point of runDuel / playHandMatch
  sm,            \* seedStream.state
  seed,          \* the pair's deck seed
  pairIdx,       \* i of the pair loop
  handNo,        \* 1: A sits SB, 2: seats swapped
  a, b,          \* Player A and B: Bank, Wins
  stopFlag,      \* stopFlag (atomic.Bool)
  stopAt,        \* where the stop was requested: pair index, hand of the pair (0: between pairs)
  gracefulOnly,  \* !STOP_IMMEDIATE
  clock,         \* ticks of the wall clock at its last reading
  deck1, deck2,  \* the decks NewDeck returned for the two hands of the pair
  h,             \* the engine Hand
  contrib,       \* sbC, bbC
  si,            \* index into streets (1 = preflop .. 4 = river)
  j,             \* iteration counter of the action loop
  seat,          \* the orchestrator's acting seat
  prevWasCheck,
  winner,
  startBank,     \* startSB, startBB
  calls,         \* the engine calls of the last step, in order
  ret,           \* what playHandMatch returned
  r1,            \* w1, pot1, dSB1, dBB1 of the pair's first hand
  h1,            \* holes and board of the first hand (h1 after it was played)
  pair,          \* chipsA, pairPot of the last completed pair
  pairStart,     \* the two banks when the pair began
  score,         \* handScore (sa, sb) of the pair's hands, in half points
  elo,           \* the Elo object
  eloOut,        \* the last Elo update: the call, the object before, (dA, dB)
  g2,            \* a Glicko2 object
  g2In,          \* the last Glicko-2 call and the object (or the pair) it was made on
  gA, gB,        \* the Glicko2 objects of A and B
  asked,         \* decision requests made in the current hand
  probe,         \* a call of applyZeroProbePolicy: its arguments, the knob, the result
  judge,         \* a row of action_logs, the tallies of its cards, the row of action_eval
  db             \* the store: in use (db != nil && matchID != 0); whether a row of
                 \* action_logs / rating_history was refused; whether a step went
                 \* another way than it goes with every row written

vars == <<pc, sm, seed, pairIdx, handNo, a, b, stopFlag, stopAt, gracefulOnly, clock, rankMemo,
          deck1, deck2, h, contrib, si, j, seat, prevWasCheck, winner, startBank,
          calls, ret, r1, h1, pair, pairStart, score, elo, eloOut,
          g2, g2In, gA, gB, asked, probe, judge, db>>

configVars == <<gracefulOnly, clock>>
duelVars   == <<sm, seed, pairIdx, handNo, deck1, deck2, rankMemo, r1, h1, pair,
                pairStart, score>>
handVars   == <<h, contrib, si, j, seat, prevWasCheck, winner, startBank, calls, asked>>
libVars    == <<elo, eloOut, g2, g2In, gA, gB, probe, judge>>

NoHand == [Street |-> "none"]
NoRet == [winner |-> NoSeat, pot |-> 0, deltaSB |-> 0, deltaBB |-> 0, aborted |-> FALSE]
NoPair == [chipsA |-> 0, pairPot |-> 0, done |-> 0]
NoContrib == [SB |-> Contrib(0, 0), BB |-> Contrib(0, 0)]
NoProbe == [act |-> "none"]
NoJudge == [solver |-> "none"]
NoStop == [pair |-> 0, hand |-> 0]
NoDb == [up |-> FALSE, logLost |-> FALSE, ratingLost |-> FALSE, apart |-> FALSE]
NoH1 == [SB |-> << >>, BB |-> << >>, Board |-> << >>]
NoElo == [A |-> FZero, B |-> FZero, K |-> FZero, Games |-> 0, AccA |-> FZero, AccB |-> FZero]
NoEloOut == [call |-> "none", before |-> NoElo, dA |-> FZero, dB |-> FZero]
NoGlicko == NewGlicko2With(FZero, FZero, FZero)
NoGlickoIn == [call |-> "none", before |-> NoGlicko]

\* loadPlayers
NewBank == [Bank |-> StartStack, Wins |-> 0]

\* handScore(w, aWasSB)
handScore(w, aWasSB) ==
  IF w = "SB" THEN (IF aWasSB THEN <<2, 0>> ELSE <<0, 2>>)
  ELSE IF w = "BB" THEN (IF aWasSB THEN <<0, 2>> ELSE <<2, 0>>)
  ELSE <<1, 1>>

Init ==
  /\ pc = "loop"
  /\ sm \in BaseSeeds
  /\ seed = Zero64
  /\ pairIdx = 0
  /\ handNo = 0
  /\ a = NewBank
  /\ b = NewBank
  /\ stopFlag = FALSE
  /\ stopAt = NoStop
  /\ gracefulOnly \in BOOLEAN
  /\ clock = 0
  /\ rankMemo = {}
  /\ deck1 = << >>
  /\ deck2 = << >>
  /\ h = NoHand
  /\ contrib = NoContrib
  /\ si = 0
  /\ j = 0
  /\ seat = "SB"
  /\ prevWasCheck = FALSE
  /\ winner = NoSeat
  /\ startBank = [SB |-> 0, BB |-> 0]
  /\ calls = << >>
  /\ ret = NoRet
  /\ r1 = NoRet
  /\ h1 = NoH1
  /\ pair = NoPair
  /\ pairStart = [a |-> StartStack, b |-> StartStack]
  /\ score = << >>
  /\ elo = NoElo
  /\ eloOut = NoEloOut
  /\ g2 = NoGlicko
  /\ g2In = NoGlickoIn /\ gA = NoGlicko /\ gB = NoGlicko
  /\ asked = 0
  /\ probe = NoProbe
  /\ judge = NoJudge
  /\ db = NoDb

\* NewDeck(seed): time.Now() is read for seed 0 only, later than any earlier reading
ReadClock(s) ==
  IF s = Zero64 THEN \E t \in 1..MaxTick : clock' = clock + t ELSE clock' = clock

\* playHandMatch entry: start banks, blinds in the ledger, preflop, SB first
EnterHand(hand, sbBank, bbBank) ==
  /\ h' = hand
  /\ startBank' = [SB |-> sbBank, BB |-> bbBank]
  /\ contrib' = [SB |-> Contrib(CfgSB, CfgSB), BB |-> Contrib(CfgBB, CfgBB)]
  /\ si' = 1
  /\ j' = 0
  /\ seat' = "SB"
  /\ prevWasCheck' = FALSE
  /\ winner' = NoSeat
  /\ calls' = << >>
  /\ asked' = 0

\* runDuel: top of the pair loop, then hand 1 (A = SB, B = BB); the values of
\* the previous pass of the loop body are gone
BeginPair ==
  /\ pc = "loop"
  /\ pairIdx < Seeds
  /\ ~(stopFlag /\ gracefulOnly)
  /\ sm' = seedStreamState(sm)
  /\ seed' = seedStreamNext(sm)
  /\ ReadClock(seed')
  /\ deck1' = NewDeck(seed', ClockValue(clock'))
  /\ rankMemo' = RankMemoOf(deck1')
  /\ EnterHand(NewHand(deck1'), a.Bank, b.Bank)
  /\ deck2' = << >>
  /\ handNo' = 1
  /\ pc' = "play"
  /\ pairStart' = [a |-> a.Bank, b |-> b.Bank]
  /\ ret' = NoRet
  /\ r1' = NoRet
  /\ h1' = NoH1
  /\ score' = << >>
  /\ pair' = [NoPair EXCEPT !.done = pair.done]
  /\ UNCHANGED <<libVars, db, pairIdx, a, b, stopFlag, stopAt, gracefulOnly>>

\* runDuel: graceful stop seen at the top of the pair loop
GracefulBreak ==
  /\ pc = "loop"
  /\ pairIdx < Seeds
  /\ stopFlag /\ gracefulOnly
  /\ pc' = "done"
  /\ UNCHANGED <<libVars, db, a, b, stopFlag, stopAt, configVars, duelVars, handVars, ret>>

\* runDuel: all pairs played
MatchEnd ==
  /\ pc = "loop"
  /\ pairIdx >= Seeds
  /\ pc' = "done"
  /\ UNCHANGED <<libVars, db, a, b, stopFlag, stopAt, configVars, duelVars, handVars, ret>>

\* Where the run is when the stop flag is stored
StopPoint == [pair |-> pairIdx, hand |-> IF pc = "loop" THEN 0 ELSE handNo]

\* watchSignals: an interrupt stores the stop flag (between two steps of the run)
StopRequest ==
  /\ pc \in {"loop", "play", "payout", "returned"}
  /\ ~stopFlag
  /\ stopFlag' = TRUE
  /\ stopAt' = StopPoint
  /\ UNCHANGED <<libVars, db, pc, a, b, configVars, duelVars, handVars, ret>>

\* A faulty stop check: the hand is abandoned whatever the stop mode
Abort_anyMode ==
  /\ pc = "play"
  /\ stopFlag
  /\ ret' = [winner |-> NoSeat, pot |-> contrib.SB.total + contrib.BB.total,
             deltaSB |-> 0, deltaBB |-> 0, aborted |-> TRUE]
  /\ pc' = "done"
  /\ UNCHANGED <<libVars, db, a, b, stopFlag, stopAt, configVars, duelVars, handVars>>

\* playHandMatch: immediate termination between actions; runDuel then breaks
Abort ==
  /\ pc = "play"
  /\ stopFlag /\ ~gracefulOnly
  /\ ret' = [winner |-> NoSeat, pot |-> contrib.SB.total + contrib.BB.total,
             deltaSB |-> 0, deltaBB |-> 0, aborted |-> TRUE]
  /\ pc' = "done"
  /\ UNCHANGED <<libVars, db, a, b, stopFlag, stopAt, configVars, duelVars, handVars>>

\* A faulty street loop: no cap on the iterations of a street
StreetOver_noCap(exit, jj) == exit = "next_street"

\* playHandMatch: the street loop is left after an iteration, by NEXT_STREET or
\* because the iteration was the last one the loop's bound allows
StreetOver(exit, jj) ==
  exit = "next_street" \/ (exit = "continue" /\ jj + 1 >= maxActionsPerStreet)

\* The rows logStep hands to the store in an iteration: one per action applied
Rows(r) == {i \in 1..Len(r.calls) : ~r.calls[i].err}

\* The outcomes of the InsertActionLog calls of an iteration, and of the
\* InsertRatingPoint call of a pair: TRUE for a nil error.  Without a store
\* nothing is written.
AllWritten(r) == [i \in 1..Cardinality(Rows(r)) |-> TRUE]
LogWrites(r) == IF db.up THEN [1..Cardinality(Rows(r)) -> BOOLEAN] ELSE {AllWritten(r)}
RatingWrites == IF db.up THEN BOOLEAN ELSE {TRUE}

\* A faulty logger: the hand is given up when a write fails
logStep_failStop(r, writes) ==
  IF \A i \in DOMAIN writes : writes[i] THEN r
  ELSE [r EXCEPT !.exit = "payout", !.winner = NoSeat]

\* logStep: "_ = db.InsertActionLog(...)", the iteration goes on as it was
logStep(r, writes) == r

\* InsertRatingPoint(after_pair): an error is printed, the loop goes on
ratingPoint(pcNext, written) == pcNext

\* playHandMatch: one iteration of the action loop (decision request, switch,
\* fallback, pass action), with the street change or showdown it leads to;
\* cancelled: the interrupt arrives while the request is outstanding
IterateOn(answers) ==
  /\ pc = "play"
  /\ ~(stopFlag /\ ~gracefulOnly)
  /\ j < maxActionsPerStreet
  /\ \E cancelled \in (IF gracefulOnly THEN {FALSE} ELSE BOOLEAN) :
     \E q \in (IF cancelled THEN {CancelledAsk(h, seat)} ELSE AskedOf(h, seat, answers)) :
     \E r0 \in {ActionStep(h, contrib, seat, prevWasCheck, Decision(q.act, q.amt))} :
     \E writes \in LogWrites(r0) :
       LET r == logStep(r0, writes)
           streetOver == StreetOver(r.exit, j)
       IN /\ db' = [db EXCEPT !.logLost = @ \/ \E i \in DOMAIN writes : ~writes[i],
                               !.apart = @ \/ r # logStep(r0, AllWritten(r0))]
          /\ stopFlag' = (stopFlag \/ cancelled)
          /\ stopAt' = (IF cancelled THEN StopPoint ELSE stopAt)
          /\ calls' = r.calls
          /\ asked' = asked + 1
          /\ IF r.exit = "payout"
             THEN /\ h' = r.h
                  /\ contrib' = r.c
                  /\ winner' = r.winner
                  /\ pc' = "payout"
                  /\ UNCHANGED <<si, j, seat, prevWasCheck>>
             ELSE IF streetOver /\ si < 4
             THEN /\ h' = NextStreet(r.h)
                  /\ contrib' = [SB |-> Contrib(r.c.SB.total, 0),
                                 BB |-> Contrib(r.c.BB.total, 0)]
                  /\ si' = si + 1
                  /\ j' = 0
                  /\ seat' = "BB"
                  /\ prevWasCheck' = FALSE
                  /\ UNCHANGED <<winner, pc>>
             ELSE IF streetOver
             THEN /\ h' = r.h
                  /\ contrib' = r.c
                  /\ winner' = Showdown(r.h)
                  /\ pc' = "payout"
                  /\ UNCHANGED <<si, j, seat, prevWasCheck>>
             ELSE /\ h' = r.h
                  /\ contrib' = r.c
                  /\ seat' = other(seat)
                  /\ j' = j + 1
                  /\ prevWasCheck' = r.prevWasCheck
                  /\ UNCHANGED <<si, winner, pc>>
  /\ UNCHANGED <<libVars, a, b, configVars, duelVars, startBank, ret>>

Iterate == IterateOn(Answers)

\* playHandMatch, PAYOUT: the winner after the raw-score check
SanityWinner(hand, w) ==
  LET folded == hand.SB.Folded \/ hand.BB.Folded
  IN IF ~folded /\ Len(hand.Board) = 5
     THEN LET sc  == Scores(hand)
              exp == IF sc[1] > sc[2] THEN "SB" ELSE IF sc[2] > sc[1] THEN "BB" ELSE NoSeat
          IN IF exp # NoSeat /\ exp # w THEN exp ELSE w
     ELSE w

\* A faulty chip flow: when SB wins, BB is charged SB's contribution
ChipFlow_wrongLoser(w, c, sbP, bbP) ==
  LET pot == c.SB.total + c.BB.total
  IN IF w = "SB"
     THEN [SB |-> [sbP EXCEPT !.Bank = @ + (pot - c.SB.total), !.Wins = @ + 1],
           BB |-> [bbP EXCEPT !.Bank = @ - c.SB.total]]
     ELSE IF w = "BB"
     THEN [SB |-> [sbP EXCEPT !.Bank = @ - c.SB.total],
           BB |-> [bbP EXCEPT !.Bank = @ + (pot - c.BB.total), !.Wins = @ + 1]]
     ELSE [SB |-> [sbP EXCEPT !.Bank = @ + ((pot \div 2) + (pot % 2)) - c.SB.total],
           BB |-> [bbP EXCEPT !.Bank = @ + (pot \div 2) - c.BB.total]]

\* A faulty split: the odd chip of a tied pot goes to BB
ChipFlow_oddToBB(w, c, sbP, bbP) ==
  LET pot == c.SB.total + c.BB.total
  IN IF w = "SB"
     THEN [SB |-> [sbP EXCEPT !.Bank = @ + (pot - c.SB.total), !.Wins = @ + 1],
           BB |-> [bbP EXCEPT !.Bank = @ - c.BB.total]]
     ELSE IF w = "BB"
     THEN [SB |-> [sbP EXCEPT !.Bank = @ - c.SB.total],
           BB |-> [bbP EXCEPT !.Bank = @ + (pot - c.BB.total), !.Wins = @ + 1]]
     ELSE [SB |-> [sbP EXCEPT !.Bank = @ + (pot \div 2) - c.SB.total],
           BB |-> [bbP EXCEPT !.Bank = @ + ((pot \div 2) + (pot % 2)) - c.BB.total]]

\* playHandMatch, "exact chip flow (incl. split)": the two seats' players afterwards
ChipFlow(w, c, sbP, bbP) ==
  LET pot == c.SB.total + c.BB.total
  IN IF w = "SB"
     THEN [SB |-> [sbP EXCEPT !.Bank = @ + (pot - c.SB.total), !.Wins = @ + 1],
           BB |-> [bbP EXCEPT !.Bank = @ - c.BB.total]]
     ELSE IF w = "BB"
     THEN [SB |-> [sbP EXCEPT !.Bank = @ - c.SB.total],
           BB |-> [bbP EXCEPT !.Bank = @ + (pot - c.BB.total), !.Wins = @ + 1]]
     ELSE [SB |-> [sbP EXCEPT !.Bank = @ + ((pot \div 2) + (pot % 2)) - c.SB.total],
           BB |-> [bbP EXCEPT !.Bank = @ + (pot \div 2) - c.BB.total]]

\* The players seated SB and BB in the current hand
SbPlayer == IF handNo = 1 THEN a ELSE b
BbPlayer == IF handNo = 1 THEN b ELSE a

\* playHandMatch: PAYOUT to return
Payout ==
  /\ pc = "payout"
  /\ LET w   == SanityWinner(h, winner)
         out == ChipFlow(w, contrib, SbPlayer, BbPlayer)
     IN /\ winner' = w
        /\ a' = IF handNo = 1 THEN out.SB ELSE out.BB
        /\ b' = IF handNo = 1 THEN out.BB ELSE out.SB
        /\ ret' = [winner |-> w, pot |-> contrib.SB.total + contrib.BB.total,
                   deltaSB |-> out.SB.Bank - startBank.SB,
                   deltaBB |-> out.BB.Bank - startBank.BB,
                   aborted |-> FALSE]
  /\ pc' = "returned"
  /\ UNCHANGED <<libVars, db, stopFlag, stopAt, configVars, duelVars, h, contrib, si, j, seat,
                 prevWasCheck, startBank, calls, asked>>

\* runDuel: after hand 1 returned; hand 2 with the seats swapped, same seed
BeginMirror ==
  /\ pc = "returned"
  /\ handNo = 1
  /\ r1' = ret
  /\ h1' = [SB |-> h.SB.Hole, BB |-> h.BB.Hole, Board |-> h.Board]
  /\ score' = <<handScore(ret.winner, TRUE)>>
  /\ ReadClock(seed)
  /\ deck2' = NewDeck(seed, ClockValue(clock'))
  /\ rankMemo' = RankMemoOf(deck2')
  /\ EnterHand(NewHand(deck2'), b.Bank, a.Bank)
  /\ handNo' = 2
  /\ pc' = "play"
  /\ UNCHANGED <<libVars, db, sm, seed, pairIdx, deck1, a, b, stopFlag, stopAt, gracefulOnly, ret, pair,
                 pairStart>>

\* A faulty attribution: A's seat is taken to be SB in both hands
ChipsA_sameSeat(first, second) == first.deltaSB + second.deltaSB

\* runDuel: chipsA = dSB1 + dBB2
ChipsA(first, second) == first.deltaSB + second.deltaBB

\* runDuel: after hand 2 returned; pair-level values, bank check, next pair
FinishPair ==
  /\ pc = "returned"
  /\ handNo = 2
  /\ score' = Append(score, handScore(ret.winner, FALSE))
  /\ pair' = [chipsA |-> ChipsA(r1, ret), pairPot |-> r1.pot + ret.pot,
              done |-> pair.done + 1]
  /\ pairIdx' = pairIdx + 1
  /\ \E written \in RatingWrites :
       LET pcNext == IF a.Bank <= 0 \/ b.Bank <= 0 THEN "done" ELSE "loop"
       IN /\ pc' = ratingPoint(pcNext, written)
          /\ db' = [db EXCEPT !.ratingLost = @ \/ ~written,
                               !.apart = @ \/ pc' # ratingPoint(pcNext, TRUE)]
  /\ UNCHANGED <<libVars, sm, seed, handNo, deck1, deck2, rankMemo, r1, h1, pairStart, a, b,
                 stopFlag, stopAt, configVars,
                 handVars, ret>>

Next ==
  \/ BeginPair
  \/ GracefulBreak
  \/ MatchEnd
  \/ StopRequest
  \/ Abort
  \/ Iterate
  \/ Payout
  \/ BeginMirror
  \/ FinishPair

Spec == Init /\ [][Next]_vars

(***************************************************************************)
(* playHandMatch on one deep-stacked hand (START_STACK = DeepStack): the   *)
(* collaborator answers well-formed and raises by the minimum only, so a   *)
(* street can run to the bound of its action loop.                         *)
(***************************************************************************)
DeepSeed == <<1, 0, 0, 0, 0, 0, 0, 0>>

InitDeep ==
  /\ pc = "play"
  /\ sm = Zero64 /\ seed = DeepSeed /\ pairIdx = 0 /\ handNo = 1
  /\ a = [Bank |-> DeepStack, Wins |-> 0] /\ b = [Bank |-> DeepStack, Wins |-> 0]
  /\ stopFlag = FALSE /\ stopAt = NoStop /\ gracefulOnly = TRUE /\ clock = 0
  /\ deck1 = NewDeck(DeepSeed, ClockValue(0)) /\ deck2 = << >>
  /\ rankMemo = RankMemoOf(deck1)
  /\ h = NewHandCfg(deck1, DeepStack)
  /\ contrib = [SB |-> Contrib(CfgSB, CfgSB), BB |-> Contrib(CfgBB, CfgBB)]
  /\ si = 1 /\ j = 0 /\ seat = "SB" /\ prevWasCheck = FALSE /\ winner = NoSeat
  /\ startBank = [SB |-> DeepStack, BB |-> DeepStack] /\ calls = << >>
  /\ ret = NoRet /\ r1 = NoRet /\ h1 = NoH1 /\ pair = NoPair
  /\ pairStart = [a |-> DeepStack, b |-> DeepStack] /\ score = << >>
  /\ elo = NoElo /\ eloOut = NoEloOut /\ g2 = NoGlicko /\ g2In = NoGlickoIn /\ gA = NoGlicko /\ gB = NoGlicko
  /\ asked = 0 /\ probe = NoProbe /\ judge = NoJudge /\ db = NoDb

DeepIterate == IterateOn(MinRaiseAnswers(h))

NextDeep == DeepIterate

SpecDeep == InitDeep /\ [][NextDeep]_vars

(***************************************************************************)
(* The loops of playHandMatch on their own: four streets, at most          *)
(* maxActionsPerStreet iterations each, an iteration ending in any of the  *)
(* three ways the switch can end (continue, NEXT_STREET, PAYOUT) whatever  *)
(* the hand and the answer are.  Every decision request returns.           *)
(***************************************************************************)
Exits == {"continue", "next_street", "payout"}

InitLoop ==
  /\ pc = "play"
  /\ sm = Zero64 /\ seed = Zero64 /\ pairIdx = 0 /\ handNo = 1
  /\ a = NewBank /\ b = NewBank
  /\ stopFlag = FALSE /\ stopAt = NoStop /\ gracefulOnly \in BOOLEAN /\ clock = 0
  /\ rankMemo = {} /\ deck1 = << >> /\ deck2 = << >>
  /\ h = NoHand /\ contrib = [SB |-> Contrib(CfgSB, CfgSB), BB |-> Contrib(CfgBB, CfgBB)]
  /\ si = 1 /\ j = 0 /\ seat = "SB" /\ prevWasCheck = FALSE /\ winner = NoSeat
  /\ startBank = [SB |-> StartStack, BB |-> StartStack] /\ calls = << >>
  /\ ret = NoRet /\ r1 = NoRet /\ h1 = NoH1 /\ pair = NoPair
  /\ pairStart = [a |-> StartStack, b |-> StartStack] /\ score = << >>
  /\ elo = NoElo /\ eloOut = NoEloOut /\ g2 = NoGlicko /\ g2In = NoGlickoIn /\ gA = NoGlicko /\ gB = NoGlicko
  /\ asked = 0 /\ probe = NoProbe /\ judge = NoJudge /\ db = NoDb

\* One iteration: the stop check passed, the request was made and returned
LoopIterate ==
  /\ pc = "play"
  /\ ~(stopFlag /\ ~gracefulOnly)
  /\ j < maxActionsPerStreet
  /\ \E cancelled \in (IF gracefulOnly THEN {FALSE} ELSE BOOLEAN) :
     \E exit \in Exits :
       /\ stopFlag' = (stopFlag \/ cancelled)
       /\ stopAt' = (IF cancelled THEN StopPoint ELSE stopAt)
       /\ asked' = asked + 1
       /\ IF exit = "payout"
          THEN /\ pc' = "payout"
               /\ UNCHANGED <<si, j>>
          ELSE IF StreetOver(exit, j) /\ si < 4
          THEN /\ si' = si + 1
               /\ j' = 0
               /\ UNCHANGED pc
          ELSE IF StreetOver(exit, j)
          THEN /\ pc' = "payout"
               /\ UNCHANGED <<si, j>>
          ELSE /\ j' = j + 1
               /\ UNCHANGED <<si, pc>>
  /\ UNCHANGED <<libVars, db, a, b, configVars, duelVars, h, contrib, seat, prevWasCheck,
                 winner, startBank, calls, ret>>

NextLoop ==
  \/ LoopIterate
  \/ StopRequest
  \/ Abort

\* runDuel with a store: every write may fail
InitPersist ==
  /\ pc = "loop"
  /\ sm = <<2, 0, 0, 0, 0, 0, 0, 0>>
  /\ seed = Zero64 /\ pairIdx = 0 /\ handNo = 0
  /\ a = NewBank /\ b = NewBank
  /\ stopFlag = FALSE /\ stopAt = NoStop /\ gracefulOnly \in BOOLEAN /\ clock = 0
  /\ rankMemo = {} /\ deck1 = << >> /\ deck2 = << >>
  /\ h = NoHand /\ contrib = NoContrib
  /\ si = 0 /\ j = 0 /\ seat = "SB" /\ prevWasCheck = FALSE /\ winner = NoSeat
  /\ startBank = [SB |-> 0, BB |-> 0] /\ calls = << >>
  /\ ret = NoRet /\ r1 = NoRet /\ h1 = NoH1 /\ pair = NoPair
  /\ pairStart = [a |-> StartStack, b |-> StartStack] /\ score = << >>
  /\ elo = NoElo /\ eloOut = NoEloOut /\ g2 = NoGlicko /\ g2In = NoGlickoIn /\ gA = NoGlicko /\ gB = NoGlicko
  /\ asked = 0 /\ probe = NoProbe /\ judge = NoJudge
  /\ db = [NoDb EXCEPT !.up = TRUE]

SpecPersist == InitPersist /\ [][Next]_vars

SpecLoop == InitLoop /\ [][NextLoop]_vars /\ WF_vars(LoopIterate) /\ WF_vars(Abort)

(***************************************************************************)
(* The hand engine on its own: NewHand followed by any sequence of Apply   *)
(* and NextStreet calls (at most MaxCalls of them).                        *)
(***************************************************************************)
\* One Apply call with the hand it was made on
EngineCall(g, kind, amount) ==
  [by |-> actor(g), kind |-> kind, amount |-> amount,
   cap |-> g[actor(g)].Committed + g[actor(g)].Stack,
   err |-> Apply(g, kind, amount).err, pre |-> g]

\* The kinds and amounts a caller may pass to Apply
CallKinds == ActionKind \cup {"none"}
CallAmounts(kind) == IF kind = Raise THEN 0..MaxAmount ELSE {0}

InitEngine ==
  /\ pc = "engine"
  /\ sm = Zero64
  /\ seed \in BaseSeeds \ {<<235, 131, 181, 128, 70, 134, 200, 97>>}
  /\ pairIdx = 0
  /\ handNo = 0
  /\ a = NewBank
  /\ b = NewBank
  /\ stopFlag = FALSE
  /\ stopAt = NoStop
  /\ gracefulOnly = TRUE
  /\ clock = 0
  /\ rankMemo = {}
  /\ deck1 = NewDeck(seed, Zero64)
  /\ deck2 = << >>
  /\ h = NewHand(deck1)
  /\ contrib = NoContrib
  /\ si = 0
  /\ j = 0
  /\ seat = "SB"
  /\ prevWasCheck = FALSE
  /\ winner = NoSeat
  /\ startBank = [SB |-> 0, BB |-> 0]
  /\ calls = << >>
  /\ ret = NoRet
  /\ r1 = NoRet
  /\ h1 = NoH1
  /\ pair = NoPair
  /\ pairStart = [a |-> StartStack, b |-> StartStack]
  /\ score = << >>
  /\ elo = NoElo
  /\ eloOut = NoEloOut
  /\ g2 = NoGlicko
  /\ g2In = NoGlickoIn /\ gA = NoGlicko /\ gB = NoGlicko
  /\ asked = 0
  /\ probe = NoProbe
  /\ judge = NoJudge
  /\ db = NoDb

\* Hand.Apply called with any action
EngineApply ==
  /\ pc = "engine"
  /\ j < MaxCalls
  /\ \E kind \in CallKinds : \E amount \in CallAmounts(kind) :
       /\ h' = Apply(h, kind, amount).h
       /\ calls' = <<EngineCall(h, kind, amount)>>
  /\ j' = j + 1
  /\ UNCHANGED <<libVars, db, pc, a, b, stopFlag, stopAt, configVars, duelVars, contrib, si, seat,
                 prevWasCheck, winner, startBank, ret, asked>>

\* Hand.NextStreet called
EngineNextStreet ==
  /\ pc = "engine"
  /\ j < MaxCalls
  /\ h' = NextStreet(h)
  /\ calls' = << >>
  /\ j' = j + 1
  /\ UNCHANGED <<libVars, db, pc, a, b, stopFlag, stopAt, configVars, duelVars, contrib, si, seat,
                 prevWasCheck, winner, startBank, ret, asked>>

NextEngine ==
  \/ EngineApply
  \/ EngineNextStreet

SpecEngine == InitEngine /\ [][NextEngine]_vars

(***************************************************************************)
(* The Elo object on its own: ratings as runDuel constructs or loads them, *)
(* then one update call with arguments as runDuel passes them.             *)
(***************************************************************************)
gameVars == <<pc, sm, seed, pairIdx, handNo, a, b, stopFlag, stopAt, gracefulOnly, clock,
              rankMemo, deck1, deck2, h, contrib, si, j, seat, prevWasCheck, winner,
              startBank, calls, ret, r1, h1, pair, pairStart, score, asked, db>>

\* No duel is running
IdleGame ==
  /\ sm = Zero64 /\ seed = Zero64 /\ pairIdx = 0 /\ handNo = 0
  /\ a = NewBank /\ b = NewBank
  /\ stopFlag = FALSE /\ stopAt = NoStop /\ gracefulOnly = TRUE /\ clock = 0
  /\ rankMemo = {} /\ deck1 = << >> /\ deck2 = << >>
  /\ h = NoHand /\ contrib = NoContrib
  /\ si = 0 /\ j = 0 /\ seat = "SB" /\ prevWasCheck = FALSE /\ winner = NoSeat
  /\ startBank = [SB |-> 0, BB |-> 0] /\ calls = << >>
  /\ ret = NoRet /\ r1 = NoRet /\ h1 = NoH1 /\ pair = NoPair
  /\ pairStart = [a |-> StartStack, b |-> StartStack] /\ score = << >>
  /\ asked = 0 /\ db = NoDb

\* ELO_START or the ratings stored for the two bots; ELO_K; stored judge
\* accuracies; pairs already processed
EloRatings == {FInt(1200), FInt(1600), FInt(2000)}
EloKs == {FInt(24)}
Accuracies == {FZero, RoundRat(3, 10), FHalf, FOne}
EloGames == {0, 3}

\* The pots and chip margins of a hand or pair
EloPots == {0, CfgSB + CfgBB, 2 * StartStack, 4 * StartStack}
EloChips == {-StartStack, -CfgSB, 0, CfgBB, StartStack}

\* handScore as float64: 1, 0.5, 0
FScore(halfPoints) == RoundRat(halfPoints, 2)

InitElo ==
  /\ pc = "elo"
  /\ IdleGame
  /\ \E ra \in EloRatings, rb \in EloRatings, k \in EloKs, g \in EloGames,
        accA \in Accuracies, accB \in Accuracies :
       elo = SetAccuracy([NewElo(ra, k) EXCEPT !.B = rb, !.Games = g], accA, accB)
  /\ eloOut = NoEloOut
  /\ g2 = NoGlicko
  /\ g2In = NoGlickoIn /\ gA = NoGlicko /\ gB = NoGlicko
  /\ probe = NoProbe
  /\ judge = NoJudge

\* elo.UpdateHand(sa, sb, pot, bb, eloWeightPot) with (sa, sb) = handScore(w, aWasSB)
EloUpdateHand ==
  /\ pc = "elo"
  /\ eloOut.call = "none"
  /\ \E w \in Seat \cup {NoSeat}, aWasSB \in BOOLEAN, pot \in EloPots, weightByPot \in BOOLEAN :
       LET sc == handScore(w, aWasSB)
       IN \E u \in {UpdateHand(elo, FScore(sc[1]), FScore(sc[2]), pot, CfgBB, weightByPot)} :
       /\ elo' = u.e
          /\ eloOut' = [call |-> "UpdateHand", before |-> elo, dA |-> u.dA, dB |-> u.dB]
  /\ UNCHANGED <<gameVars, g2, g2In, gA, gB, probe, judge>>

\* elo.UpdateFromMirror(chipsA, pairPot, bb)
EloUpdateFromMirror ==
  /\ pc = "elo"
  /\ eloOut.call = "none"
  /\ \E chipsA \in EloChips, potSum \in EloPots :
     \E th \in TanhValues(MirrorMargin(chipsA, potSum, CfgBB)) :
     \E u \in {UpdateFromMirror(elo, chipsA, potSum, CfgBB, th)} :
       /\ elo' = u.e
       /\ eloOut' = [call |-> "UpdateFromMirror", before |-> elo, dA |-> u.dA, dB |-> u.dB]
  /\ UNCHANGED <<gameVars, g2, g2In, gA, gB, probe, judge>>

NextElo ==
  \/ EloUpdateHand
  \/ EloUpdateFromMirror

SpecElo == InitElo /\ [][NextElo]_vars

(***************************************************************************)
(* A Glicko2 object on its own: constructed, then aged over rating periods *)
(* without games (at most MaxPeriods of them).                             *)
(***************************************************************************)
MaxPeriods == 2

\* Ratings, deviations and volatilities a Glicko2 object is constructed with
\* (NewGlicko2, or NewGlicko2With on values stored for a bot)
GlickoRatings == {FInt(1500), FInt(1200), FInt(1600), RoundRat(10007, 10), RoundRat(10014, 10)}
GlickoRDs == {FInt(350), FInt(100), FInt(30)}
GlickoVolatilities == {RoundRat(6, 100), RoundRat(3, 10), Float(1, -30)}
Taus == {FHalf}

InitGlicko ==
  /\ pc = "glicko"
  /\ IdleGame
  /\ elo = NoElo
  /\ eloOut = NoEloOut
  /\ g2 \in {NewGlicko2} \cup {NewGlicko2With(r, rd, sigma) :
               r \in GlickoRatings, rd \in GlickoRDs, sigma \in GlickoVolatilities}
  /\ g2In = NoGlickoIn /\ gA = NoGlicko /\ gB = NoGlicko
  /\ probe = NoProbe
  /\ judge = NoJudge

\* g.Age()
GlickoAge ==
  /\ pc = "glicko"
  /\ g2.Games < MaxPeriods
  /\ g2' = Age(g2)
  /\ g2In' = [call |-> "Age", before |-> g2]
  /\ UNCHANGED <<gameVars, elo, eloOut, gA, gB, probe, judge>>

\* g.UpdateBatch(nil, tau)
GlickoUpdateBatchEmpty ==
  /\ pc = "glicko"
  /\ g2.Games < MaxPeriods
  /\ \E tau \in Taus : g2' = UpdateBatchEmpty(g2, tau)
  /\ g2In' = [call |-> "UpdateBatch", before |-> g2]
  /\ UNCHANGED <<gameVars, elo, eloOut, gA, gB, probe, judge>>

NextGlicko ==
  \/ GlickoAge
  \/ GlickoUpdateBatchEmpty

SpecGlicko == InitGlicko /\ [][NextGlicko]_vars

(***************************************************************************)
(* runDuel's Glicko-2 step after a pair, on its own: the two objects as    *)
(* the match starts with them, updated after each of at most MaxPairs      *)
(* pairs with the pair's chip margin.                                      *)
(***************************************************************************)
\* The pairs of a match
MaxPairs == 4

\* runDuel: oldA := *gA; oldB := *gB
Snapshots(x, y) ==
  [gA |-> x, gB |-> y, oldA |-> x, oldB |-> y,
   solveA |-> [left |-> "none", it |-> 0], solveB |-> [left |-> "none", it |-> 0]]

\* A faulty update: the opponent is the object itself, not its snapshot
Opponent_live(st, who) == IF who = "A" THEN st.gB ELSE st.gA

\* runDuel: the opponent handed to UpdatePair: &oldB for gA, &oldA for gB
Opponent(st, who) == IF who = "A" THEN st.oldB ELSE st.oldA

\* runDuel: gA.UpdatePair(&oldB, S, tau), or gB.UpdatePair(&oldA, 1.0-S, tau)
Receiver(st, who) == IF who = "A" THEN st.gA ELSE st.gB
PairScore(who, S) == IF who = "A" THEN S ELSE FSub(FOne, S)
Updated(st, who, r) ==
  IF who = "A" THEN [st EXCEPT !.gA = r.g, !.solveA = r.solve]
  ELSE [st EXCEPT !.gB = r.g, !.solveB = r.solve]
PairStep(st, who, S, tau) ==
  ByValue3(Updated, st, who,
           UpdatePair(Receiver(st, who), Opponent(st, who), PairScore(who, S), tau))

\* The first n updates of a pair, made in the given order
RECURSIVE PairSteps(_, _, _, _, _)
PairSteps(st, order, n, S, tau) ==
  IF n = 0 THEN st
  ELSE ByValue4(PairStep, PairSteps(st, order, n - 1, S, tau), order[n], S, tau)

\* runDuel: the snapshots and the two updates, made in the given order
PairUpdate(x, y, S, tau, order) == PairSteps(Snapshots(x, y), order, 2, S, tau)

InitGlickoPair ==
  /\ pc = "glickoPair"
  /\ IdleGame
  /\ elo = NoElo
  /\ eloOut = NoEloOut
  /\ g2 = NoGlicko
  /\ g2In = NoGlickoIn
  /\ gA = NewGlicko2
  /\ gB = NewGlicko2
  /\ probe = NoProbe
  /\ judge = NoJudge

\* runDuel: 'Glicko-2 per pair': S from the chip margin, then the two updates
GlickoPair ==
  /\ pc = "glickoPair"
  /\ gA.Games < MaxPairs
  /\ \E chipsA \in EloChips : \E tau \in Taus :
       LET effStack == IF StartStack <= 0 THEN FInt(100 * CfgBB) ELSE FInt(StartStack)
       IN \E th \in {FTanh(FDiv(FInt(chipsA), effStack))} :
            \E S \in {FAdd(FHalf, FMul(FHalf, th))} :
              \E out \in {PairUpdate(gA, gB, S, tau, <<"A", "B">>)} :
                /\ gA' = out.gA
                /\ gB' = out.gB
                /\ g2In' = [call |-> "UpdatePair", before |-> [gA |-> gA, gB |-> gB],
                            S |-> S, tau |-> tau,
                            solveA |-> out.solveA, solveB |-> out.solveB]
  /\ UNCHANGED <<gameVars, elo, eloOut, g2, probe, judge>>

NextGlickoPair == GlickoPair

SpecGlickoPair == InitGlickoPair /\ [][NextGlickoPair]_vars

(***************************************************************************)
(* applyZeroProbePolicy on its own: one call with a validated decision, as *)
(* askAction makes it, under each setting of RAISE_ZERO_CALL_PROB.         *)
(***************************************************************************)
\* The legal sets Hand.Legal returns when there is an action to choose
ProbeLegals == {<<Check>>, <<Check, Raise>>, <<Fold, Call>>, <<Fold, Call, Raise>>}

\* probeProbFromEnv: 0 (or below), strictly between 0 and 1, 1 (or above)
ProbeProbs == {"zero", "mid", "one"}

\* The decisions askAction hands to the policy: an action of the legal set, a
\* raise with an amount in [minRaiseTo, maxRaiseTo], anything else without
ProbeCalls ==
  {c \in [act : ActionKind, amt : {NoAmount} \cup (CfgBB..StartStack),
          legal : ProbeLegals, minRaiseTo : {CfgBB}, toCall : {0, CfgSB, CfgBB},
          prob : ProbeProbs] :
     /\ Contains(c.legal, c.act)
     /\ (c.act = Raise) <=> (c.amt # NoAmount)}

InitProbe ==
  /\ pc = "probe"
  /\ IdleGame
  /\ elo = NoElo /\ eloOut = NoEloOut /\ g2 = NoGlicko /\ g2In = NoGlickoIn /\ gA = NoGlicko /\ gB = NoGlicko
  /\ judge = NoJudge
  /\ \E c \in ProbeCalls : probe = [in |-> c, called |-> FALSE, out |-> Failed]

\* act, amount = applyZeroProbePolicy(act, amount, legal, minRaiseTo, obs.ToCall)
ApplyProbe ==
  /\ pc = "probe"
  /\ ~probe.called
  /\ \E coin \in BOOLEAN :
       probe' = [probe EXCEPT
                   !.called = TRUE,
                   !.out = applyZeroProbePolicy(probe.in.act, probe.in.amt, probe.in.legal,
                                                probe.in.minRaiseTo, probe.in.toCall,
                                                probe.in.prob, coin)]
  /\ UNCHANGED <<gameVars, elo, eloOut, g2, g2In, gA, gB, judge>>

NextProbe == ApplyProbe

SpecProbe == InitProbe /\ [][NextProbe]_vars

(***************************************************************************)
(* The river judge (judge package: EvaluateMatchMC) on one row of          *)
(* action_logs, as playHandMatch's logStep writes it.                      *)
(***************************************************************************)
\* Card.String: the rank character, then the suit character
RankChars == <<"2", "3", "4", "5", "6", "7", "8", "9", "T", "J", "Q", "K", "A">>
CardString(c) == <<RankChars[c.Rank - 1], c.Suit>>
CardStrings(cs) == [i \in 1..Len(cs) |-> CardString(cs[i])]

NoCard == [Rank |-> 0, Suit |-> ""]

\* EvaluateMatchMC: parse
parse(s) ==
  LET rnk  == s[1]
      suit == s[2]
      rank == CASE rnk = "A" -> 14 [] rnk = "K" -> 13 [] rnk = "Q" -> 12
                [] rnk = "J" -> 11 [] rnk = "T" -> 10
                [] OTHER -> IF \E d \in 1..8 : RankChars[d] = rnk
                            THEN 1 + CHOOSE d \in 1..8 : RankChars[d] = rnk
                            ELSE 0
  IN IF rank = 0 \/ suit \notin {"c", "d", "h", "s"} THEN NoCard ELSE Card(rank, suit)

\* EvaluateMatchMC: the cards of a list that parse
parsed(ss) == SelectSeq([i \in 1..Len(ss) |-> parse(ss[i])], LAMBDA c : c # NoCard)

\* EvaluateMatchMC: toPH (the ace is the library's rank 1)
toPH(c) == [Suit |-> c.Suit, Rank |-> IF c.Rank = 14 THEN 1 ELSE c.Rank]

\* The engine card a library card stands for
OfPH(p) == Card(IF p.Rank = 1 THEN 14 ELSE p.Rank, p.Suit)

SeqSet(q) == {q[i] : i \in 1..Len(q)}

\* The library's scores of the seven-card hands a board allows: any two cards
\* off the board, with the board.  They are computed once per board, when the
\* row is read, and looked up afterwards.
BoardScores(board) ==
  LET Scored(bs) ==
        LET Two(rest) ==
              {{rest[ik[1]], rest[ik[2]]} :
                 ik \in {p \in (1..Len(rest)) \X (1..Len(rest)) : p[1] < p[2]}}
            two == ByValue1(Two, SelectSeq(OrderedDeck, LAMBDA c : c \notin bs))
        IN [cs \in {p \cup bs : p \in two} |-> Eval7(cs)]
  IN ByValue1(Scored, SeqSet(board))

\* The library's score of seven cards: looked up, or computed on the spot
ScoreOf(cs) == IF cs \in DOMAIN judge.memo THEN judge.memo[cs] ELSE Eval7(cs)

\* poker.Eval7 on library cards
LibEval7(pcs) == ScoreOf({OfPH(p) : p \in pcs})

\* Library-based hand rank: a smaller score is a stronger hand
Stronger(x, y) == x < y

\* A faulty seat mapping: the actor label alone decides the seat
heroSeatOf_labelOnly(handTag, label) == IF label = "A" THEN "SB" ELSE "BB"

\* EvaluateMatchMC: heroSeat from the hand id's suffix and the actor label
heroSeatOf(handTag, label) ==
  LET aIsSB == handTag = "A"
  IN IF label = "A" THEN (IF ~aIsSB THEN "BB" ELSE "SB")
     ELSE (IF aIsSB THEN "BB" ELSE "SB")

\* EvaluateMatchMC: win, tie and total over every pair of unused cards
Tally(hole, board) ==
  LET used      == SeqSet(board) \cup SeqSet(hole)
      avail     == SelectSeq(OrderedDeck, LAMBDA c : c \notin used)
      bph       == {toPH(c) : c \in SeqSet(board)}
      heroScore == LibEval7({toPH(c) : c \in SeqSet(hole)} \cup bph)
      n         == Len(avail)
      pairs     == {ik \in (1..n) \X (1..n) : ik[1] < ik[2]}
      vScore(ik) == LibEval7({toPH(avail[ik[1]]), toPH(avail[ik[2]])} \cup bph)
  IN [win   |-> Cardinality({ik \in pairs : heroScore < vScore(ik)}),
      tie   |-> Cardinality({ik \in pairs : heroScore = vScore(ik)}),
      total |-> Cardinality(pairs)]

FLeq(x, y) == ~FLess(y, x)
FMax(x0, y0) ==
  LET Larger(x, y) == IF FLess(x, y) THEN y ELSE x
  IN ByValue2(Larger, x0, y0)

\* math.Round: to the nearest integer, halves away from zero
FRound(x0) ==
  LET Nearest(x) ==
        IF x.e >= 0 THEN x
        ELSE LET d == Pow2(-x.e)
                 q == Abs(x.m) \div d
                 r == Abs(x.m) % d
             IN FInt(Sgn(x.m) * (IF 2 * r >= d THEN q + 1 ELSE q))
  IN ByValue1(Nearest, x0)

\* The row was passed over (continue): nothing is written to action_eval
NoEval == [inserted |-> FALSE]

\* EvaluateMatchMC: the body of the loop over the rows, for one row
EvaluateRow(r, bb0) ==
  LET bb       == IF bb0 <= 0 THEN 100 ELSE bb0
      eps      == FMul(RoundRat(15, 100), FInt(bb))
      heroSeat == heroSeatOf(r.HandID, r.ActorLabel)
      heroHole == IF heroSeat = "SB" THEN r.SBHole ELSE r.BBHole
      board    == parsed(SubSeq(r.Board, 1, 5))
      hole     == parsed(heroHole)
  IN IF Len(r.Board) < 5 \/ Len(r.SBHole) # 2 \/ Len(r.BBHole) # 2 THEN NoEval
     ELSE IF Len(board) # 5 \/ Len(hole) # 2 THEN NoEval
     ELSE
       LET Equity(t) == FDiv(FAdd(FInt(t.win), FMul(FHalf, FInt(t.tie))), FInt(t.total))
           \* Facing bet: call vs fold
           Facing(eq, P, bsize) ==
             LET evFold == FZero
                 Graded(evCall, foldBest) ==
                   LET evBest   == IF foldBest THEN evFold ELSE evCall
                       evChosen == IF r.Action = Call THEN evCall ELSE evFold
                   IN [inserted |-> r.Action \in {Call, Fold}, eq |-> eq,
                       evFold |-> evFold, evCall |-> evCall,
                       bestAction |-> IF foldBest THEN Fold ELSE Call,
                       evBest |-> evBest, evChosen |-> evChosen,
                       isTop |-> FLeq(FSub(evBest, evChosen), eps)]
                 Called(evCall) == ByValue2(Graded, evCall, FLess(evCall, evFold))
             IN ByValue1(Called, FSub(FMul(eq, FAdd(P, bsize)), FMul(FSub(FOne, eq), bsize)))
           \* Uncontested river: check vs bet
           Free(eq, P, bsize) ==
             LET F       == RoundRat(35, 100)
                 evCheck == FZero
                 Graded(evBet, checkBest) ==
                   LET evBest   == IF checkBest THEN evCheck ELSE evBet
                       evChosen == IF r.Action = Raise THEN evBet ELSE evCheck
                   IN [inserted |-> r.Action \in {Check, Raise}, eq |-> eq,
                       evCheck |-> evCheck, evBet |-> evBet,
                       bestAction |-> IF checkBest THEN Check ELSE Raise,
                       evBest |-> evBest, evChosen |-> evChosen,
                       isTop |-> FLeq(FSub(evBest, evChosen), eps)]
                 Betting(evBet) == ByValue2(Graded, evBet, FLess(evBet, evCheck))
             IN ByValue1(Betting,
                         FAdd(FMul(F, P),
                              FMul(FSub(FOne, F),
                                   FSub(FMul(eq, FAdd(P, FMul(FInt(2), bsize))),
                                        FMul(FSub(FOne, eq), bsize)))))
           Sized(eq, P) ==
             ByValue3(Free, eq, P, FMax(FInt(bb), FRound(FMul(RoundRat(66, 100), P))))
           Scored(t) ==
             IF t.total = 0 THEN NoEval
             ELSE IF r.ToCall > 0
             THEN ByValue3(Facing, Equity(t), FInt(r.Pot), FInt(r.ToCall))
             ELSE ByValue2(Sized, Equity(t), FInt(r.Pot))
       IN ByValue1(Scored, Tally(hole, board))

\* River hands of a duel: the board and the two hole-card pairs.  The small
\* blind holds the royal flush; no pair on board, each seat with a hand that
\* can be beaten or tied; the big blind holds the fourth ace with three on
\* the board's side (quad aces against kings full); the small blind holds
\* queen high, ahead of fewer than a quarter of the holdings.
JudgeHands ==
  { [Board  |-> <<Card(12, "s"), Card(11, "s"), Card(10, "s"), Card(2, "h"), Card(3, "d")>>,
     SBHole |-> <<Card(14, "s"), Card(13, "s")>>,
     BBHole |-> <<Card(2, "c"), Card(7, "d")>>],
    [Board  |-> <<Card(2, "c"), Card(7, "d"), Card(9, "h"), Card(11, "s"), Card(13, "c")>>,
     SBHole |-> <<Card(13, "d"), Card(13, "h")>>,
     BBHole |-> <<Card(12, "d"), Card(10, "h")>>],
    [Board  |-> <<Card(14, "s"), Card(14, "h"), Card(13, "d"), Card(7, "c"), Card(2, "s")>>,
     SBHole |-> <<Card(13, "c"), Card(13, "h")>>,
     BBHole |-> <<Card(14, "c"), Card(14, "d")>>],
    [Board  |-> <<Card(2, "c"), Card(7, "d"), Card(9, "h"), Card(11, "s"), Card(13, "c")>>,
     SBHole |-> <<Card(12, "c"), Card(3, "c")>>,
     BBHole |-> <<Card(12, "d"), Card(10, "h")>>] }

\* The hands of a pair ("duel-<i>A": A is the small blind; "duel-<i>B": B is)
HandTags == {"A", "B"}
Labels == {"A", "B"}

\* Pot and to-call as logStep records them, and the action logged with them
JudgePots == {2 * CfgBB, 2 * StartStack}
JudgeBets == {[ToCall |-> 0, Action |-> Check], [ToCall |-> 0, Action |-> Raise],
              [ToCall |-> CfgBB, Action |-> Call], [ToCall |-> CfgBB, Action |-> Fold],
              [ToCall |-> CfgBB, Action |-> Raise],
              [ToCall |-> StartStack - CfgBB, Action |-> Call]}

InitJudge ==
  /\ pc = "judge"
  /\ IdleGame
  /\ elo = NoElo /\ eloOut = NoEloOut /\ g2 = NoGlicko /\ g2In = NoGlickoIn /\ gA = NoGlicko /\ gB = NoGlicko
  /\ probe = NoProbe
  /\ \E hd \in JudgeHands :
     \E memo \in {BoardScores(hd.Board)} :
     \E tag \in HandTags, label \in Labels, pot \in JudgePots, logged \in JudgeBets :
       judge = [row |-> [HandID |-> tag, ActorLabel |-> label, Pot |-> pot,
                         ToCall |-> logged.ToCall, Action |-> logged.Action,
                         Board |-> CardStrings(hd.Board),
                         SBHole |-> CardStrings(hd.SBHole),
                         BBHole |-> CardStrings(hd.BBHole)],
                memo |-> memo, judged |-> FALSE, out |-> NoEval]

\* EvaluateMatchMC reads the row and writes its evaluation
JudgeRow ==
  /\ pc = "judge"
  /\ ~judge.judged
  /\ judge' = [judge EXCEPT !.judged = TRUE, !.out = EvaluateRow(judge.row, CfgBB)]
  /\ UNCHANGED <<gameVars, elo, eloOut, g2, g2In, gA, gB, probe>>

NextJudge == JudgeRow

SpecJudge == InitJudge /\ [][NextJudge]_vars

(***************************************************************************)
(* Properties of the duel and of the engine.                               *)
(***************************************************************************)
\* A call of playHandMatch has just returned (normally or aborted)
HandReturned == pc = "returned" \/ (pc = "done" /\ ret.aborted)

\* C1: chip conservation at bank level.  When playHandMatch returns, the two
\* seated players' banks sum to what they summed to at entry and the returned
\* deltaSB is -deltaBB; a.Bank + b.Bank is 2 x START_STACK in every state.
C1_BankConservation ==
  /\ a.Bank + b.Bank = 2 * StartStack
  /\ HandReturned =>
       /\ SbPlayer.Bank + BbPlayer.Bank = startBank.SB + startBank.BB
       /\ ret.deltaSB = -ret.deltaBB

\* C1 happens: after a tied first hand the mirror hand returned with a winner
\* and chips moved.
C1_Witness ==
  /\ pc = "returned" /\ handNo = 2
  /\ r1.winner = NoSeat /\ r1.pot > 0
  /\ ret.winner \in Seat /\ ret.deltaSB # 0

\* C2: engine pot invariant.  After NewHand and any sequence of Apply and
\* NextStreet calls, Pot is the chips removed from the two stacks and no stack
\* is negative.
C2_EnginePot ==
  h # NoHand =>
    /\ h.Pot = (StartStack - h.SB.Stack) + (StartStack - h.BB.Stack)
    /\ h.SB.Stack >= 0
    /\ h.BB.Stack >= 0

\* C2 happens: chips beyond the blinds went in, a player is all-in after a
\* raise above the stack, and the street changed.
C2_Witness ==
  /\ pc = "engine" /\ h.Street = "flop"
  /\ h.Pot > CfgSB + CfgBB
  /\ \E i \in 1..Len(h.History) :
       h.History[i].Kind = Raise /\ h.History[i].Amount > StartStack

\* C3: deck determinism.  The two decks NewDeck built for a mirrored pair from
\* the pair's seed are equal, whatever the seed.
C3_SameSeedSameDeck ==
  (handNo = 2 /\ deck2 # << >>) => deck1 = deck2

\* The hand's cards are the first cards of the deck, in dealing order
DealtFrom(hand, deck) ==
  /\ hand.SB.Hole = <<deck[1], deck[2]>>
  /\ hand.BB.Hole = <<deck[3], deck[4]>>
  /\ hand.Board = SubSeq(deck, 5, 4 + Len(hand.Board))

\* C4: mirrored deal.  Each hand deals SB deck cards 1-2, BB cards 3-4 and the
\* board from cards 5-9 in order, whatever the betting; and in the mirror hand
\* the seats hold the hole cards those seats held in the first hand, with every
\* board card both hands revealed equal.
C4_MirroredDeal ==
  /\ (pc \in {"play", "payout", "returned"} /\ handNo = 1) => DealtFrom(h, deck1)
  /\ (pc \in {"play", "payout", "returned"} /\ handNo = 2) =>
       /\ DealtFrom(h, deck2)
       /\ h.SB.Hole = h1.SB
       /\ h.BB.Hole = h1.BB
       /\ \A i \in 1..Len(h.Board) : i <= Len(h1.Board) => h.Board[i] = h1.Board[i]

\* A completed pair: both hands returned and the pair-level values were computed
PairCompleted ==
  /\ pc \in {"loop", "done"} /\ handNo = 2 /\ ~ret.aborted
  /\ pair.done = pairIdx /\ pairIdx > 0

\* C5: pair outcome attribution.  For a completed pair chipsA is A's bank
\* change over the two hands, B's bank change is -chipsA, and A's per-hand
\* score is 1 (two half points) when A's seat won, 0 when it lost, 1/2 on a tie.
C5_PairAttribution ==
  PairCompleted =>
    /\ pair.chipsA = a.Bank - pairStart.a
    /\ -pair.chipsA = b.Bank - pairStart.b
    /\ Len(score) = 2
    /\ score[1][1] = (IF r1.winner = "SB" THEN 2 ELSE IF r1.winner = "BB" THEN 0 ELSE 1)
    /\ score[2][1] = (IF ret.winner = "BB" THEN 2 ELSE IF ret.winner = "SB" THEN 0 ELSE 1)
    /\ score[1][1] + score[1][2] = 2
    /\ score[2][1] + score[2][2] = 2

\* C5 happens: A won chips as SB, lost fewer as BB, and the pair is booked.
C5_Witness ==
  /\ PairCompleted
  /\ r1.winner = "SB" /\ ret.winner = "SB"
  /\ r1.deltaSB > 0 /\ ret.deltaBB < 0 /\ pair.chipsA > 0

\* The legal set is computed: an iteration of the action loop is about to run
LegalComputed == pc = "play" /\ ~(stopFlag /\ ~gracefulOnly) /\ j < maxActionsPerStreet

\* C6: legal-action correctness.  Whenever the legal set is computed for the
\* player to act: to-call = 0 gives check and neither fold nor call; fold and
\* call are present exactly when to-call > 0; no raise when a player is all-in.
C6_LegalSet ==
  LegalComputed =>
    LET legal  == Legal(h)
        toCall == h.CurBet - h[actor(h)].Committed
    IN /\ toCall = 0 => (Contains(legal, Check) /\ ~Contains(legal, Fold)
                           /\ ~Contains(legal, Call))
       /\ Contains(legal, Fold) <=> toCall > 0
       /\ Contains(legal, Call) <=> toCall > 0
       /\ (h.SB.AllIn \/ h.BB.AllIn) => ~Contains(legal, Raise)

\* C7: minimum-raise enforcement.  An Apply(Raise, amount) call with amount =
\* CurBet + MinRaise succeeds (the raise is recorded and the turn passes); with
\* a smaller amount it returns an error and the hand is what it was.
C7_MinRaise ==
  pc = "engine" =>
    \A i \in 1..Len(calls) :
      LET c == calls[i]
      IN c.kind = Raise =>
           /\ c.amount = c.pre.CurBet + c.pre.MinRaise =>
                /\ ~c.err
                /\ h.History = Append(c.pre.History, Action(c.by, Raise, c.amount))
                /\ h.ToAct = other(c.by)
           /\ c.amount < c.pre.CurBet + c.pre.MinRaise => (c.err /\ h = c.pre)

\* C7 happens: after an earlier raise, a raise one below the minimum was refused.
C7_Witness ==
  /\ pc = "engine"
  /\ \E i \in 1..Len(calls) :
       /\ calls[i].kind = Raise
       /\ calls[i].pre.MinRaise > CfgBB
       /\ calls[i].amount = calls[i].pre.CurBet + calls[i].pre.MinRaise - 1
       /\ calls[i].err

\* C8: shove acceptance.  Whenever raise is in the actor's legal set, a raise
\* to the actor's committed + stack is accepted and sets the actor all-in.
C8_ShoveAccepted ==
  (pc = "play" /\ Contains(Legal(h), Raise)) =>
    LET s == actor(h)
        r == Apply(h, Raise, h[s].Committed + h[s].Stack)
    IN ~r.err /\ r.h[s].AllIn

\* C9: raise upper bound.  Every raise handed to the engine with a raise-to
\* amount above the actor's committed + stack is refused, so no such amount
\* enters History or MinRaise.
C9_RaiseUpperBound ==
  pc # "engine" =>
    /\ \A i \in 1..Len(calls) :
         (calls[i].kind = Raise /\ calls[i].amount > calls[i].cap) => calls[i].err
    /\ h # NoHand =>
         /\ \A i \in 1..Len(h.History) :
              h.History[i].Kind = Raise => h.History[i].Amount <= StartStack
         /\ h.MinRaise <= StartStack

\* C10: payout amounts.  When a hand returns with a winner, the winner's bank
\* rose by the chips the loser put in the pot during the hand, the loser's
\* bank fell by the same amount, and the returned pot is what both put in; if
\* SB folded as the first action that is the small blind and SB + BB.
C10_PayoutAmounts ==
  (pc = "returned" /\ ret.winner \in Seat) =>
    LET l    == other(ret.winner)
        lost == StartStack - h[l].Stack
        gain == IF ret.winner = "SB" THEN ret.deltaSB ELSE ret.deltaBB
        loss == IF l = "SB" THEN ret.deltaSB ELSE ret.deltaBB
    IN /\ gain = lost
       /\ loss = -lost
       /\ ret.pot = (StartStack - h.SB.Stack) + (StartStack - h.BB.Stack)
       /\ (Len(h.History) = 1 /\ h.History[1] = Action("SB", Fold, 0)) =>
            (ret.deltaBB = CfgSB /\ ret.deltaSB = -CfgSB /\ ret.pot = CfgSB + CfgBB)

\* A hand went to showdown and the two raw scores are equal
TiedShowdown ==
  /\ ~h.SB.Folded /\ ~h.BB.Folded
  /\ Len(h.Board) = 5
  /\ Scores(h)[1] = Scores(h)[2]

\* C11: tie handling.  When the payout of a hand whose showdown scores are
\* equal is made, no seat is the winner, neither Wins counter moves, and each
\* seat's bank gets half the pot less what the seat put in, SB's half carrying
\* the odd chip of an odd pot.
C11_TieSplit ==
  [][(pc = "payout" /\ pc' = "returned" /\ TiedShowdown) =>
       LET pot == contrib.SB.total + contrib.BB.total
       IN /\ ret'.winner = NoSeat
          /\ ~ret'.aborted
          /\ a'.Wins = a.Wins /\ b'.Wins = b.Wins
          /\ SbPlayer'.Bank = SbPlayer.Bank + (pot \div 2) + (pot % 2) - contrib.SB.total
          /\ BbPlayer'.Bank = BbPlayer.Bank + (pot \div 2) - contrib.BB.total
          /\ ret'.pot = pot]_vars

\* C11 happens: a tied showdown over an odd pot was paid out, SB one chip up.
C11_Witness ==
  /\ pc = "returned" /\ TiedShowdown
  /\ ret.winner = NoSeat
  /\ ret.pot % 2 = 1
  /\ ret.deltaSB + contrib.SB.total = ret.deltaBB + contrib.BB.total + 1

\* C12: Elo zero-sum.  After an update (UpdateFromMirror or UpdateHand with
\* handScore's scores) the returned deltas satisfy dA = -dB and the sum of the
\* two ratings is what it was before the update.
C12_EloZeroSum ==
  (pc = "elo" /\ eloOut.call # "none") =>
    /\ eloOut.dA = FNeg(eloOut.dB)
    /\ FAdd(elo.A, elo.B) = FAdd(eloOut.before.A, eloOut.before.B)

\* C13: Glicko-2 aging-only.  After Age, or UpdateBatch with no results, Rating
\* and Volatility are what they were, RD is strictly larger whenever
\* Volatility > 0, and the new deviation on the internal scale is
\* sqrt(phi^2 + sigma^2).
C13_AgingOnly ==
  (pc = "glicko" /\ g2In.call # "none") =>
    LET old == g2In.before
    IN /\ g2.Rating = old.Rating
       /\ g2.Volatility = old.Volatility
       /\ old.Volatility.m > 0 => FLess(old.RD, g2.RD)
       /\ toMuPhi(g2.Rating, g2.RD)[2] = phiStarOf(old)

\* The ladder's two preference orders, and the first action of an order that
\* is in a legal set ("none" when there is none)
LadderFacing == <<Call, Fold, Raise, Check>>
LadderFree == <<Check, Raise, Call, Fold>>
FirstLegal(order, legal) ==
  LET in(i) == Contains(legal, order[i])
  IN IF \E i \in 1..Len(order) : in(i)
     THEN order[CHOOSE i \in 1..Len(order) : in(i) /\ \A k \in 1..(i - 1) : ~in(k)]
     ELSE "none"

\* An iteration of the action loop is about to ask for a decision
AboutToAsk == pc = "play" /\ ~(stopFlag /\ ~gracefulOnly) /\ j < maxActionsPerStreet

\* C14: fallback ladder order.  In every state where an iteration is about to
\* ask for a decision, every request that returns an error leads the iteration
\* to go on with the first of call, fold, raise, check that is in the legal set
\* when to-call > 0 and with the first of check, raise, call, fold that is in
\* the legal set when to-call = 0, a raise being to the minimum raise-to amount.
C14_LadderOrder ==
  AboutToAsk =>
    \A q \in Asked(h, seat) \cup {CancelledAsk(h, seat)} :
      q.failed =>
        LET legal  == actionStrings(h)
            toCall == Max0(h.CurBet - h[seat].Committed)
            first  == FirstLegal(IF toCall > 0 THEN LadderFacing ELSE LadderFree, legal)
        IN /\ q.act = first
           /\ q.amt = (IF first = Raise THEN MinTo(h) ELSE NoAmount)

\* The answers that cannot be resolved to a legal action and in-range amount
Unusable == {"transport", "illegal", "range"}

\* C15: every unusable answer goes through the ladder.  In every state where
\* an iteration is about to ask for a decision, every answer of the
\* collaborator that is a transport error or timeout, names an action outside
\* the legal set (unparseable text included) or a raise outside
\* [min raise-to, max raise-to], on whichever request path, leads the iteration
\* to apply the action and amount of the fallback ladder; facing a bet with
\* call legal the action applied is call.
C15_UnusableToLadder ==
  AboutToAsk =>
    \A q \in Asked(h, seat) :
      q.class \in Unusable =>
        LET legal  == actionStrings(h)
            toCall == Max0(h.CurBet - h[seat].Committed)
            d      == fallbackLadder(legal, toCall, MinTo(h))
        IN /\ q.act = d.act
           /\ q.amt = d.amt
           /\ (toCall > 0 /\ Contains(legal, Call)) => q.act = Call

\* A graceful stop was requested while a hand of a pair was in progress
GracefulStopInPair == gracefulOnly /\ stopFlag /\ stopAt.hand # 0

\* The hand result r is the return of a hand played to payout
PaidOut(r) == ~r.aborted /\ r.pot >= CfgSB + CfgBB /\ r.deltaSB + r.deltaBB = 0

\* C16: graceful stop never truncates play.  In graceful mode, after a stop
\* requested during a pair, no hand is reported aborted, and when the match has
\* halted the pair in which the stop was requested is complete: its first hand
\* and its mirror both returned from payout, and the pair-level (rating)
\* updates were made for it, from the results of these two hands; no later
\* pair was started.
C16_GracefulStop ==
  GracefulStopInPair =>
    /\ ~ret.aborted /\ ~r1.aborted
    /\ pairIdx \in {stopAt.pair, stopAt.pair + 1}
    /\ pc = "done" =>
         /\ handNo = 2
         /\ PaidOut(r1) /\ PaidOut(ret)
         /\ pairIdx = stopAt.pair + 1
         /\ pair.done = stopAt.pair + 1
         /\ pair.chipsA = ChipsA(r1, ret)
         /\ pair.pairPot = r1.pot + ret.pot
         /\ Len(score) = 2

\* C16 witness: the stop was requested during the first hand of the first
\* pair, and the match halted after the mirror hand and that pair's updates
C16_Witness ==
  /\ GracefulStopInPair /\ pc = "done"
  /\ stopAt = [pair |-> 0, hand |-> 1]
  /\ handNo = 2 /\ pair.done = 1 /\ pairIdx = 1
  /\ a.Bank > 0 /\ b.Bank > 0
  /\ PaidOut(r1) /\ PaidOut(ret)

\* C17: immediate stop aborts without payout.  In immediate mode, a step taken
\* while a hand is in progress and that ends with the stop flag stored (the
\* stop was requested before the step, or it is requested by this step, or it
\* arrives during this step's decision request, which is then cancelled)
\* leaves the hand in progress or reports it aborted: the hand does not go to
\* payout, the banks keep their values from the start of the hand, and the
\* return, when there is one, says aborted.
C17_ImmediateAbort ==
  [][(~gracefulOnly /\ pc = "play" /\ stopFlag') =>
       /\ pc' \in {"play", "done"}
       /\ a' = a /\ b' = b
       /\ SbPlayer'.Bank = startBank.SB /\ BbPlayer'.Bank = startBank.BB
       /\ pc' = "done" => ret'.aborted /\ ret'.deltaSB = 0 /\ ret'.deltaBB = 0]_vars

\* The hand has left the street loops: PAYOUT is reached or the hand aborted
HandOver == pc \in {"payout", "done"}

\* C18: per-street cap and termination.  Whatever the iterations lead to, a
\* street never gets beyond its 20th iteration, the requests made in a hand
\* never exceed 20 per street begun and 80 in all, and every hand reaches
\* payout or abort.
C18_StreetCap ==
  /\ [](/\ j < maxActionsPerStreet
        /\ asked <= (maxActionsPerStreet * (si - 1)) + j + 1
        /\ asked <= 4 * maxActionsPerStreet)
  /\ <>HandOver

\* C18 witness: the hand went through 20 iterations on each of the 4 streets
\* and left the river by the cap
C18_Witness ==
  pc = "payout" /\ si = 4 /\ j = maxActionsPerStreet - 1 /\ asked = 4 * maxActionsPerStreet

\* C20: probe knob disabled at 0.  With RAISE_ZERO_CALL_PROB = 0 the policy
\* returns the action and the amount it was given, for every decision and every
\* to-call.
C20_ProbeOff ==
  (pc = "probe" /\ probe.called /\ probe.in.prob = "zero") =>
    probe.out = Decision(probe.in.act, probe.in.amt)

\* The seat of the player who made a logged decision: in hand A of a pair
\* player A is the small blind, in hand B player B is
ActorSeat(r) == IF r.HandID = r.ActorLabel THEN "SB" ELSE "BB"

\* No two cards left in the deck make, with the board, a hand as strong as or
\* stronger than the one the hole cards make
Unbeatable(hole, board) ==
  LET bs   == SeqSet(board)
      mine == ScoreOf(SeqSet(hole) \cup bs)
      rest == SeqSet(OrderedDeck) \ (SeqSet(hole) \cup bs)
  IN \A c \in rest : \A d \in rest \ {c} : Stronger(mine, ScoreOf({c, d} \cup bs))

\* The logged decision faces a bet and its player holds an unbeatable hand
NutsFacingBet ==
  /\ pc = "judge" /\ judge.judged
  /\ judge.row.ToCall > 0
  /\ Unbeatable(parsed(IF ActorSeat(judge.row) = "SB" THEN judge.row.SBHole
                        ELSE judge.row.BBHole),
                parsed(judge.row.Board))

C21_BestEffort ==
  db.up =>
    /\ ~db.apart
    /\ ret.aborted => (stopFlag /\ ~gracefulOnly)

\* C21 happens: action-log rows and the rating-point row were refused, and the
\* pair was played to its end and booked with chips moved.
C21_Witness ==
  /\ db.up /\ db.logLost /\ db.ratingLost
  /\ pc = "loop" /\ pair.done = 1 /\ ~ret.aborted
  /\ pair.chipsA # 0

\* C22: the ledger agrees with the engine.  At every payout the two tracked
\* contributions add up to the engine's pot and each seat's tracked
\* contribution is the starting stack less that seat's engine stack, and a
\* returned hand has moved no bank by more than the starting stack.
C22_LedgerAgrees ==
  /\ pc = "payout" =>
       /\ contrib.SB.total + contrib.BB.total = h.Pot
       /\ \A s \in Seat : contrib[s].total = StartStack - h[s].Stack
  /\ (pc = "returned" /\ ~ret.aborted) =>
       /\ ret.deltaSB <= StartStack /\ -ret.deltaSB <= StartStack
       /\ ret.deltaBB <= StartStack /\ -ret.deltaBB <= StartStack

\* C23: the turn pointers stay in step.  At every decision point the
\* orchestrator's acting seat is the engine's ToAct, and an iteration applies
\* at most one action to the engine, booked (contributions, log, tallies) on
\* the player the engine took as the actor.
C23_TurnPointers ==
  /\ [](AboutToAsk => seat = h.ToAct)
  /\ [][(pc = "play" /\ (h' # h \/ contrib' # contrib)) =>
          /\ Cardinality(Rows([calls |-> calls'])) <= 1
          /\ \A i \in Rows([calls |-> calls']) : calls'[i].by = seat]_vars

\* C24: one ordering of hand scores everywhere.  On a full board with nobody
\* folded, the seat Showdown declares the winner holds the hand the judge's
\* enumeration counts as a win over the other seat's hand, a tie of the one is
\* a tie of the other, and the orchestrator's raw-score check leaves
\* Showdown's winner as it is.
C24_OneOrdering ==
  (pc = "payout" /\ ~h.SB.Folded /\ ~h.BB.Folded /\ Len(h.Board) = 5) =>
    LET sc == Scores(h)
        w  == Showdown(h)
    IN /\ w = "SB" => Stronger(sc[1], sc[2])
       /\ w = "BB" => Stronger(sc[2], sc[1])
       /\ w = NoSeat <=> sc[1] = sc[2]
       /\ SanityWinner(h, w) = w

\* A player is all-in and the other player has nothing left to call
AllInSettled(g) ==
  \E s \in Seat :
    /\ g[s].AllIn /\ ~g.SB.Folded /\ ~g.BB.Folded
    /\ g[other(s)].AllIn \/ g[other(s)].Committed >= g.CurBet

\* C25: all-in ends the decisions.  Once a player is all-in and any
\* outstanding bet has been called, no decision is requested from either
\* player and no action is applied to the engine or logged.
C25_AllInEndsDecisions ==
  [][(h # NoHand /\ AllInSettled(h) /\ pc = "play") =>
       /\ asked' = asked
       /\ h'.History = h.History
       /\ calls' = calls]_vars

\* What a seat has put in on the street that a step ends (a seat's stack and
\* street commitment add up to the same amount throughout a street)
StreetPut(s) == (h[s].Committed + h[s].Stack) - h'[s].Stack

\* The orchestrator leaves the street: next street, or showdown
LeavesStreet == pc = "play" /\ (si' = si + 1 \/ pc' = "payout")

\* C26: streets close only on matched bets.  When the orchestrator leaves a
\* street with nobody folded and nobody all-in, both players have put the
\* same amount in on that street.
C26_MatchedBets ==
  [][(LeavesStreet /\ ~h'.SB.Folded /\ ~h'.BB.Folded
        /\ ~h'.SB.AllIn /\ ~h'.BB.AllIn) =>
       StreetPut("SB") = StreetPut("BB")]_vars

\* Somebody is folded or all-in
OutOfPlay(g) == g.SB.Folded \/ g.BB.Folded \/ g.SB.AllIn \/ g.BB.AllIn

\* The step calls a raise: the last action was a raise, still to be called,
\* and a call is applied
CallsRaise ==
  /\ Len(h.History) >= 1
  /\ h.History[Len(h.History)].Kind = Raise
  /\ h.CurBet > h[actor(h)].Committed
  /\ Len(h'.History) = Len(h.History) + 1
  /\ h'.History[Len(h'.History)].Kind = Call

\* C27: the engine's round-completion test.  bettingRoundDone is false right
\* after a street transition (nobody folded or all-in, no action taken on the
\* new street yet), and true after a raise that has just been called.
C27_RoundDone ==
  [][pc = "engine" =>
       /\ (h'.Street # h.Street /\ ~OutOfPlay(h')) => ~bettingRoundDone(h')
       /\ CallsRaise => bettingRoundDone(h')]_vars

\* C28: every player gets to act.  A street that starts with nobody folded or
\* all-in is not left (next street, or showdown) by its first iteration, the
\* only decision request of which went to one player, unless that player
\* folds; in particular not by SB's call of the big blind preflop.
C28_BothAct ==
  [][(pc = "play" /\ j = 0 /\ ~OutOfPlay(h)
        /\ ~h'.SB.Folded /\ ~h'.BB.Folded) => ~LeavesStreet]_vars

\* C29: the fallback action is legal.  In every state where an iteration is
\* about to ask for a decision, every request that returns an error leads the
\* ladder to an action of the legal set computed at that decision point, and
\* the engine applies that action without an error.
C29_FallbackLegal ==
  AboutToAsk =>
    \A q \in Asked(h, seat) \cup {CancelledAsk(h, seat)} :
      q.failed =>
        /\ Contains(actionStrings(h), q.act)
        /\ ~ActionStep(h, contrib, seat, prevWasCheck, Decision(q.act, q.amt)).calls[1].err

\* The decisions askAction hands to the probe policy: an action of the legal
\* set, a raise with an amount in [minRaiseTo, maxRaiseTo]
Validated(legal, minTo, maxTo) ==
  {Decision(act, NoAmount) : act \in {x \in {Fold, Check, Call} : Contains(legal, x)}}
  \cup {Decision(Raise, amt) : amt \in {x \in minTo..maxTo : Contains(legal, Raise)}}

\* C30: the probe policy's output is a valid decision.  At every decision
\* point, for every validated decision, setting of the probe probability and
\* outcome of the draw, the policy changes the decision only when to-call is 0
\* and only from check to raise or from raise to check, the action it returns
\* is in the legal set, and the amount of a raise it returns lies within
\* [minimum raise-to, maximum raise-to] of the acting player.
C30_ProbeValid ==
  AboutToAsk =>
    LET legal  == actionStrings(h)
        minTo  == MinTo(h)
        maxTo  == MaxTo(h, seat)
        toCall == Max0(h.CurBet - h[seat].Committed)
    IN \A d \in Validated(legal, minTo, maxTo) :
       \A prob \in ProbeProbs : \A coin \in BOOLEAN :
         LET out == applyZeroProbePolicy(d.act, d.amt, legal, minTo, toCall, prob, coin)
         IN /\ out # d => (toCall = 0 /\ {d.act, out.act} = {Check, Raise})
            /\ Contains(legal, out.act)
            /\ out.act = Raise => (minTo <= out.amt /\ out.amt <= maxTo)

\* The row logStep writes when, in the spot of row r (a bet faced), the
\* player takes the other of call and fold: logStep runs after the action was
\* applied, so the pot of a call's row holds the chips called and the pot of a
\* fold's row does not; to-call is the value computed before the action.
OtherAnswer(r) ==
  IF r.Action = Call
  THEN [r EXCEPT !.Action = Fold, !.Pot = r.Pot - r.ToCall]
  ELSE [r EXCEPT !.Action = Call, !.Pot = r.Pot + r.ToCall]

\* C31: the judge's verdict depends only on the spot faced.  For a logged
\* river call or fold facing a bet, the judge computes the same EV(call) and
\* the same best action for the row as for the row the other answer to the
\* same spot leaves in the log.
C31_SpotOnly ==
  (pc = "judge" /\ judge.judged /\ judge.row.ToCall > 0
     /\ judge.row.Action \in {Call, Fold} /\ judge.out.inserted) =>
    LET twin == EvaluateRow(OtherAnswer(judge.row), CfgBB)
    IN /\ twin.evCall = judge.out.evCall
       /\ twin.bestAction = judge.out.bestAction

\* A hand is dealt: playHandMatch is entered with a new hand
HandDealt == pc # "play" /\ pc' = "play"

\* C32: no new play after a stop.  Once the stop flag is set no hand is dealt
\* and no pair is started, in graceful and in immediate mode alike.
C32_NoNewPlay ==
  [][stopFlag => ~HandDealt]_vars

\* C33: banks never go negative.  After every hand each contestant's bank is
\* at least 0.
C33_BanksNonNegative ==
  pc \in {"returned", "loop", "done"} => (a.Bank >= 0 /\ b.Bank >= 0)

\* The hands whose payout is in the banks, by the seat A held: A is SB in the
\* first hand of a pair and BB in its mirror hand
PaidAs ==
  [SB |-> pair.done + (IF handNo = 2 /\ ret.aborted THEN 1 ELSE 0),
   BB |-> pair.done]

\* C34: only mirrored results count.  When the match has ended, every hand
\* whose payout is in the banks has its mirror hand paid out as well: each
\* contestant has been paid in as many hands as SB as in hands as BB.
C34_MirroredOnly ==
  pc = "done" => PaidAs.SB = PaidAs.BB

\* The step is a call of Hand.NextStreet
NextStreetStep == pc = "engine" /\ j' = j + 1 /\ calls' = << >>

\* The board cards of each street, and the cards NextStreet reveals on it
StreetCards == [preflop |-> 0, flop |-> 3, turn |-> 4, river |-> 5]

Reveals == [preflop |-> 3, flop |-> 1, turn |-> 1, river |-> 0]

\* C35: street transition and turn order.  A new hand is on preflop with the
\* small blind to act; every NextStreet reveals the next 3, 1, 1 cards of the
\* deck (none once the river is out), sets both committed amounts and CurBet
\* to 0, MinRaise to the big blind and ToAct to the big blind, and leaves the
\* pot and both stacks as they were; in every state the board holds 0, 3, 4, 5
\* cards on preflop, flop, turn, river.
C35_StreetOrder ==
  /\ (h.Street = "preflop" /\ h.ToAct = "SB")
  /\ [](Len(h.Board) = StreetCards[h.Street])
  /\ [][NextStreetStep =>
          /\ h'.Board = h.Board \o SubSeq(h.Deck, 1, Reveals[h.Street])
          /\ StreetCards[h'.Street] = StreetCards[h.Street] + Reveals[h.Street]
          /\ h'.SB.Committed = 0 /\ h'.BB.Committed = 0 /\ h'.CurBet = 0
          /\ h'.MinRaise = CfgBB /\ h'.ToAct = "BB"
          /\ h'.Pot = h.Pot
          /\ h'.SB.Stack = h.SB.Stack /\ h'.BB.Stack = h.BB.Stack]_vars

\* A river reached by NextStreet after chips went in on the turn
C35_Witness ==
  /\ pc = "engine" /\ calls = << >> /\ j >= 3
  /\ h.Street = "river" /\ Len(h.Board) = 5
  /\ h.Pot > CfgSB + CfgBB

\* The step of playHandMatch ends with a raise the engine accepted
RaiseAccepted ==
  /\ pc = "play" /\ h' # h /\ h'.Street = h.Street
  /\ calls' # << >>
  /\ calls'[Len(calls')].kind = Raise /\ ~calls'[Len(calls')].err

\* C36: minimum-raise bookkeeping.  In every hand state MinRaise is at least
\* the big blind; after an accepted raise to R over a current bet C, MinRaise
\* is R - C, not below the MinRaise before, and CurBet is R.
C36_MinRaiseBook ==
  /\ [](h # NoHand => h.MinRaise >= CfgBB)
  /\ [][RaiseAccepted =>
          LET R == calls'[Len(calls')].amount
          IN /\ h'.MinRaise = R - h.CurBet
             /\ h'.MinRaise >= h.MinRaise
             /\ h'.CurBet = R]_vars

\* C37: the Glicko-2 pair update is order-independent.  Both contestants are
\* updated against the opponent as it was before the pair, so the two objects
\* after the pair are what they are when B is updated first and A second.
C37_OrderIndependent ==
  (pc = "glickoPair" /\ g2In.call = "UpdatePair") =>
    \E swapped \in {PairUpdate(g2In.before.gA, g2In.before.gB, g2In.S, g2In.tau,
                                <<"B", "A">>)} :
      swapped.gA = gA /\ swapped.gB = gB

\* A pair that moved A's rating, so that B's update had an updated A beside
\* A's snapshot
C37_Witness ==
  /\ pc = "glickoPair" /\ g2In.call = "UpdatePair"
  /\ gA.Rating # g2In.before.gA.Rating
  /\ gB.Rating # g2In.before.gB.Rating

\* The volatility solve did not end by convergence
SolveFailed(s) == s.left \in {"unbracketed", "exhausted", "nan"}

\* C38: a failure of the volatility solve is reported.  UpdateBatch returns
\* nothing and writes nothing, the object is all a caller sees of it: when the
\* solve did not bracket or did not converge, the update is not installed
\* (the object's Games and Volatility are what they were).
C38_FailureReported ==
  (pc = "glickoPair" /\ g2In.call = "UpdatePair") =>
    /\ SolveFailed(g2In.solveA) =>
         (gA.Games = g2In.before.gA.Games /\ gA.Volatility = g2In.before.gA.Volatility)
    /\ SolveFailed(g2In.solveB) =>
         (gB.Games = g2In.before.gB.Games /\ gB.Volatility = g2In.before.gB.Volatility)
====
